---- MODULE Spec2Model ----
(***************************************************************************)
(* gorm-cache: a cache-aside plugin for GORM.                              *)
(*                                                                         *)
(* The model follows the plugin's three callbacks (queryCallback,          *)
(* afterQueryCallback, invalidateCallback), the policy functions of        *)
(* Config (shouldCacheModel, shouldSkipCache, generateCacheKey,            *)
(* getModelPattern), the JSON serializer and the in-memory adapter.        *)
(* Strings are TLA+ strings, so key prefixes are matched character by      *)
(* character as strings.HasPrefix does.  Time is counted in minutes.       *)
(***************************************************************************)
EXTENDS Integers, Sequences, FiniteSets, TLC

VARIABLES
    cfg,        \* CachePlugin.config, as New left it
    store,      \* MemoryAdapter.store: key -> cacheItem
    now,        \* time.Now(), in minutes
    source,     \* the database tables the queries run against
    call,       \* per caller: the *gorm.DB of the call in flight
    calls,      \* number of calls started so far
    populated,  \* history: key -> the result an after-query hook stored there
    emptyRead,  \* history: key -> a read of it found no rows (and an insert followed)
    invalidated,\* history: tables whose entries an update's invalidation removed
    probe,      \* inputs and outputs of the policy functions applied on their own
    mem         \* MemoryAdapter at run time: mu, cleanUp, stopCh and its goroutines

vars == <<cfg, store, now, source, call, calls, populated, emptyRead, invalidated, probe, mem>>

----------------------------------------------------------------------------
(* Bounds of the model *)

MaxRows == 2
MaxTime == 3
MaxCalls == 4

----------------------------------------------------------------------------
(* Strings *)

HasPrefix(s, p) == Len(p) <= Len(s) /\ SubSeq(s, 1, Len(p)) = p

HasSuffix(s, p) == Len(p) <= Len(s) /\ SubSeq(s, Len(s) - Len(p) + 1, Len(s)) = p

TrimSuffix(s, p) == IF HasSuffix(s, p) THEN SubSeq(s, 1, Len(s) - Len(p)) ELSE s

Digit(n) == CASE n = 0 -> "0" [] n = 1 -> "1" [] n = 2 -> "2" [] n = 3 -> "3"
              [] n = 4 -> "4" [] OTHER -> "9"

DigitValue(ch) == CASE ch = "0" -> 0 [] ch = "1" -> 1 [] ch = "2" -> 2 [] ch = "3" -> 3
                    [] ch = "4" -> 4 [] ch = "9" -> 9 [] OTHER -> -1

----------------------------------------------------------------------------
(* Models, tables and calls *)

Callers == {"c1", "c2"}

Tables == {"users", "orders"}

NoSchema == "<nil>"

ModelTypeString(t) == IF t = "users" THEN "main.User" ELSE "main.Order"

NoKey == "<none>"

\* A destination buffer: a struct holds one row value (0 is the zero struct), a
\* slice a sequence of them, any other destination (a count) one number.
ZeroDest(shape) == [kind |-> shape, items |-> IF shape = "slice" THEN <<>> ELSE <<0>>]

----------------------------------------------------------------------------
(* config.go: Config, DefaultConfig; plugin: New *)

DefaultTTL == 5

DefaultKeyPrefix == "gorm:cache:"

DefaultConfig ==
    [Adapter |-> "memory", TTL |-> DefaultTTL, CacheModels |-> {},
     InvalidateOnUpdate |-> TRUE, InvalidateOnCreate |-> TRUE, InvalidateOnDelete |-> TRUE,
     KeyPrefix |-> DefaultKeyPrefix, SkipCacheCondition |-> "nil",
     CacheKeyGenerator |-> "nil", Serializer |-> "json"]

\* The zero value of Config, which a caller's literal starts from.
ZeroConfig ==
    [Adapter |-> "nil", TTL |-> 0, CacheModels |-> {},
     InvalidateOnUpdate |-> FALSE, InvalidateOnCreate |-> FALSE, InvalidateOnDelete |-> FALSE,
     KeyPrefix |-> "", SkipCacheCondition |-> "nil",
     CacheKeyGenerator |-> "nil", Serializer |-> "nil"]

New(config) ==
    [config EXCEPT
        !.Adapter = IF config.Adapter = "nil" THEN "memory" ELSE config.Adapter,
        !.TTL = IF config.TTL = 0 THEN DefaultConfig.TTL ELSE config.TTL,
        !.KeyPrefix = IF config.KeyPrefix = "" THEN DefaultConfig.KeyPrefix ELSE config.KeyPrefix,
        !.Serializer = IF config.Serializer = "nil" THEN "json" ELSE config.Serializer]

----------------------------------------------------------------------------
(* serializer.go: JSONSerializer *)

RECURSIVE JoinDigits(_)
JoinDigits(items) ==
    IF items = <<>> THEN "" ELSE Digit(Head(items)) \o JoinDigits(Tail(items))

RECURSIVE ParseDigits(_)
ParseDigits(str) ==
    IF Len(str) = 0 THEN <<>>
    ELSE <<DigitValue(SubSeq(str, 1, 1))>> \o ParseDigits(SubSeq(str, 2, Len(str)))

\* json.Marshal of the destination: an array for a slice, an object for a struct,
\* a number for anything else.
Marshal(v) ==
    CASE v.kind = "slice" -> "[" \o JoinDigits(v.items) \o "]"
      [] v.kind = "struct" -> "{" \o JoinDigits(v.items) \o "}"
      [] OTHER -> JoinDigits(v.items)

\* The text between the first and the last character.
Inner(data) == SubSeq(data, 2, Len(data) - 1)

AllDigits(str) == \A i \in 1..Len(str) : DigitValue(SubSeq(str, i, i)) >= 0

\* json.Unmarshal(data, v) returns an error unless the text is a value of v's shape.
UnmarshalOk(data, v) ==
    CASE v.kind = "slice" ->
            /\ Len(data) >= 2 /\ HasPrefix(data, "[") /\ HasSuffix(data, "]")
            /\ AllDigits(Inner(data))
      [] v.kind = "struct" ->
            /\ Len(data) = 3 /\ HasPrefix(data, "{") /\ HasSuffix(data, "}")
            /\ AllDigits(Inner(data))
      [] OTHER -> Len(data) = 1 /\ AllDigits(data)

Unmarshal(data, v) ==
    IF ~UnmarshalOk(data, v) THEN v
    ELSE CASE v.kind \in {"slice", "struct"} -> [v EXCEPT !.items = ParseDigits(Inner(data))]
           [] OTHER -> [v EXCEPT !.items = ParseDigits(data)]

----------------------------------------------------------------------------
(* context.go: the skip value carried by the call's context *)

\* A context is "nil", carries no skip value ("unset"), or carries "true" or "false".

SkipCacheContext(ctx) == "true"

WithSkipCache(ctx, skip) == IF skip THEN "true" ELSE "false"

\* returns <<skip, ok>>
getSkipCacheFromContext(ctx) ==
    IF ctx = "nil" THEN <<FALSE, FALSE>>
    ELSE IF ctx \in {"true", "false"} THEN <<ctx = "true", TRUE>>
    ELSE <<FALSE, FALSE>>

----------------------------------------------------------------------------
(* config.go: the policy functions of Config *)

\* The entries a caller can put in CacheModels, and what fmt.Sprintf("%T", e) prints.
ModelValues == {"User{}", "Order{}", "&User{}"}

SprintfT(e) ==
    CASE e = "User{}" -> "main.User"
      [] e = "Order{}" -> "main.Order"
      [] OTHER -> "*main.User"

\* Variant: a call without a model identity is cached like any other.
shouldCacheModel_NoIdentityCached(c, db) ==
    IF Cardinality(c.CacheModels) = 0 THEN TRUE
    ELSE IF db.Schema = NoSchema THEN TRUE
    ELSE \E cacheModel \in c.CacheModels : SprintfT(cacheModel) = ModelTypeString(db.Schema)

\* Variant: the allow-list is not consulted.
shouldCacheModel_EveryModel(c, db) == TRUE

shouldCacheModel(c, db) ==
    IF Cardinality(c.CacheModels) = 0 THEN TRUE
    ELSE IF db.Schema = NoSchema THEN FALSE
    ELSE \E cacheModel \in c.CacheModels : SprintfT(cacheModel) = ModelTypeString(db.Schema)

\* The configured predicate of the tests: skip for the "admin" role.
SkipCacheCondition(c, db) == c.SkipCacheCondition = "isAdmin" /\ db.Role = "admin"

\* Variant: the predicate is consulted before the context.
skipEvaluation_PredicateFirst(c, db) ==
    IF c.SkipCacheCondition # "nil" /\ SkipCacheCondition(c, db)
    THEN [skip |-> TRUE, called |-> TRUE]
    ELSE IF getSkipCacheFromContext(db.Context)[2] /\ getSkipCacheFromContext(db.Context)[1]
    THEN [skip |-> TRUE, called |-> c.SkipCacheCondition # "nil"]
    ELSE IF db.SkipSetting # "unset" /\ db.SkipSetting = "true"
    THEN [skip |-> TRUE, called |-> c.SkipCacheCondition # "nil"]
    ELSE [skip |-> FALSE, called |-> c.SkipCacheCondition # "nil"]

\* Variant: the statement's skip setting is not looked at.
skipEvaluation_SettingIgnored(c, db) ==
    IF getSkipCacheFromContext(db.Context)[2] /\ getSkipCacheFromContext(db.Context)[1]
    THEN [skip |-> TRUE, called |-> FALSE]
    ELSE IF c.SkipCacheCondition # "nil" /\ SkipCacheCondition(c, db)
    THEN [skip |-> TRUE, called |-> TRUE]
    ELSE [skip |-> FALSE, called |-> c.SkipCacheCondition # "nil"]

\* shouldSkipCache, with whether it called the configured predicate on the way:
\* the context first, then the predicate, then the statement's setting.
skipEvaluation(c, db) ==
    IF getSkipCacheFromContext(db.Context)[2] /\ getSkipCacheFromContext(db.Context)[1]
    THEN [skip |-> TRUE, called |-> FALSE]
    ELSE IF c.SkipCacheCondition # "nil" /\ SkipCacheCondition(c, db)
    THEN [skip |-> TRUE, called |-> TRUE]
    ELSE IF db.SkipSetting # "unset" /\ db.SkipSetting = "true"
    THEN [skip |-> TRUE, called |-> c.SkipCacheCondition # "nil"]
    ELSE [skip |-> FALSE, called |-> c.SkipCacheCondition # "nil"]

shouldSkipCache(c, db) == skipEvaluation(c, db).skip

SkipCacheConditionCalled(c, db) == skipEvaluation(c, db).called

\* json.Marshal of {SQL, Vars}; the text is empty when Vars cannot be marshalled.
KeyJSON(db) ==
    IF db.Vars = "[NaN]" THEN ""
    ELSE "{\"SQL\":\"" \o db.SQL \o "\",\"Vars\":" \o db.Vars \o "}"

\* hex.EncodeToString(md5.Sum(b)), taken to be injective.
MD5Hex(b) == "md5<" \o b \o ">"

\* The configured generator of a caller: the README's ("custom:" with the table
\* and the bound variables), one that puts the table first, or the query text.
CacheKeyGenerator(c, db) ==
    CASE c.CacheKeyGenerator = "readme" -> "custom:" \o db.Table \o ":" \o db.Vars
      [] c.CacheKeyGenerator = "tableFirst" -> db.Table \o ":" \o db.Vars
      [] OTHER -> db.SQL

generateCacheKey(c, db) ==
    IF c.CacheKeyGenerator # "nil"
    THEN c.KeyPrefix \o CacheKeyGenerator(c, db)
    ELSE c.KeyPrefix
            \o (IF db.Schema # NoSchema THEN db.Schema ELSE "unknown")
            \o ":" \o MD5Hex(KeyJSON(db))

\* Variant: the pattern ignores the model and covers every key of the prefix.
getModelPattern_EveryModel(c, db) == c.KeyPrefix \o "*"

\* Variant: a mutation with no schema invalidates the keys of the "unknown" table.
getModelPattern_UnknownTable(c, db) ==
    IF db.Schema = NoSchema THEN c.KeyPrefix \o "unknown:*"
    ELSE c.KeyPrefix \o db.Schema \o ":*"

getModelPattern(c, db) ==
    IF db.Schema = NoSchema THEN c.KeyPrefix \o "*"
    ELSE c.KeyPrefix \o db.Schema \o ":*"

----------------------------------------------------------------------------
(* memory_adapter.go: MemoryAdapter *)

\* cacheItem; expiration 0 is the zero time (no expiration).  The clock starts at 1.
CacheItem(value, expiration) == [value |-> value, expiration |-> expiration]

\* Variant: an item with an expiration is expired whatever the clock says.
Expired_IgnoresClock(item, t) == item.expiration # 0

\* Variant: no item is ever expired.
Expired_Never(item, t) == FALSE

Expired(item, t) == item.expiration # 0 /\ t > item.expiration

\* Get: the error is "" on success.
Get(st, t, key) ==
    IF key \notin DOMAIN st THEN [err |-> "key not found", value |-> ""]
    ELSE IF Expired(st[key], t) THEN [err |-> "key expired", value |-> ""]
    ELSE [err |-> "", value |-> st[key].value]

\* Variant: every ttl, positive or not, sets an expiration.
Set_AlwaysExpires(st, t, key, value, ttl) ==
    [k \in DOMAIN st \cup {key} |->
        IF k = key THEN CacheItem(value, t + ttl) ELSE st[k]]

\* Variant: an entry that is overwritten keeps the expiration it had.
Set_KeepsExpiry(st, t, key, value, ttl) ==
    [k \in DOMAIN st \cup {key} |->
        IF k = key
        THEN CacheItem(value, IF key \in DOMAIN st THEN st[key].expiration
                              ELSE IF ttl > 0 THEN t + ttl ELSE 0)
        ELSE st[k]]

Set(st, t, key, value, ttl) ==
    [k \in DOMAIN st \cup {key} |->
        IF k = key THEN CacheItem(value, IF ttl > 0 THEN t + ttl ELSE 0) ELSE st[k]]

\* Variant: Delete empties the store.
Delete_EveryKey(st, key) == [k \in {} |-> st[k]]

Delete(st, key) == [k \in DOMAIN st \ {key} |-> st[k]]

\* Delete, Clear and Set of the in-memory adapter return no error.
DeleteError(st, key) == ""

\* Variant: the pattern is compared with its trailing "*" left on.
PatternMatches_Untrimmed(key, pattern) == HasPrefix(key, pattern) \/ pattern = "*"

PatternMatches(key, pattern) == HasPrefix(key, TrimSuffix(pattern, "*")) \/ pattern = "*"

DeletePattern(st, pattern) ==
    [k \in {key \in DOMAIN st : ~PatternMatches(key, pattern)} |-> st[k]]

\* Variant: Clear removes only the entries that have an expiration.
Clear_KeepsUnexpiring(st) == [k \in {key \in DOMAIN st : st[key].expiration = 0} |-> st[k]]

Clear(st) == [k \in {} |-> CacheItem("", 0)]

\* Variant: the sweep also removes the entries whose expiration is the present instant.
cleanup_AtTheInstant(st, t) ==
    [k \in {key \in DOMAIN st : ~(st[key].expiration # 0 /\ t >= st[key].expiration)} |-> st[k]]

\* Variant: the sweep removes nothing.
cleanup_KeepsExpired(st, t) == st

cleanup(st, t) == [k \in {key \in DOMAIN st : ~Expired(st[key], t)} |-> st[k]]

\* The goroutines that use the adapter: two callers and the sweeper.
Goroutines == {"g1", "g2"}

Sweeper == "sweeper"

NoTask == [pc |-> "idle", fn |-> "", key |-> "", value |-> "", ttl |-> 0, keys |-> {},
           removed |-> {},
           out |-> [err |-> "", value |-> ""]]

\* NewMemoryAdapter: mu unlocked, stopCh open, cleanUp true, the sweeper started.
NewMemoryAdapter ==
    [writer |-> "none", readers |-> {}, cleanUp |-> TRUE, stopCh |-> "open",
     task |-> [g \in Goroutines \cup {Sweeper} |->
                    IF g = Sweeper THEN [NoTask EXCEPT !.pc = "select", !.fn = "cleanup"]
                    ELSE NoTask],
     panicked |-> FALSE, closeReturned |-> FALSE, lateSweep |-> FALSE]

----------------------------------------------------------------------------
(* adapter.go, serializer.go: what the plugin calls through the Adapter and       *)
(* Serializer interfaces.  Every method of both returns an error.  The in-memory  *)
(* adapter and the JSON codec fail only as their code says; a "remote" adapter    *)
(* is the same store behind a connection that can fail on any call, and a         *)
(* "custom" serializer is a caller's codec that can fail on any call.             *)

NoFault == [get |-> FALSE, set |-> FALSE, del |-> FALSE, enc |-> FALSE, dec |-> FALSE]

GetFaults(c) == IF c.Adapter = "remote" THEN BOOLEAN ELSE {FALSE}

SetFaults(c) == IF c.Adapter = "remote" THEN BOOLEAN ELSE {FALSE}

DelFaults(c) == IF c.Adapter = "remote" THEN BOOLEAN ELSE {FALSE}

CodecFaults(c) == IF c.Serializer = "custom" THEN BOOLEAN ELSE {FALSE}

AdapterGet(c, st, t, key, f) ==
    IF f.get THEN [err |-> "transport", value |-> ""] ELSE Get(st, t, key)

AdapterSet(c, st, t, key, value, ttl, f) ==
    IF f.set THEN st ELSE Set(st, t, key, value, ttl)

AdapterDeletePattern(c, st, pattern, f) ==
    IF f.del THEN st ELSE DeletePattern(st, pattern)

SerializerUnmarshalOk(c, data, v, f) == ~f.dec /\ UnmarshalOk(data, v)

SerializerMarshalOk(c, v, f) == ~f.enc

----------------------------------------------------------------------------
(* The call: the fields of *gorm.DB and its Statement the plugin reads and writes *)

\* Error is "nil", an upstream failure ("prior": present on entry, "query": raised by
\* the query) or "cachehit", the internal *ErrCacheHit, whose RowsAffected is HitRows.
Errors == {"nil", "prior", "query", "cachehit"}

SQLText(table, where) == "SELECT * FROM " \o table \o where

NewDB(op, table, schema, where, bound, shape, ctx, role, setting, err) ==
    [pc |-> "start", op |-> op, Table |-> table, Schema |-> schema,
     SQL |-> SQLText(table, where), Vars |-> bound, Dest |-> ZeroDest(shape),
     Context |-> ctx, Role |-> role, SkipSetting |-> setting,
     Error |-> err, HitRows |-> 0, RowsAffected |-> 0, CacheKey |-> NoKey,
     \* Built: the statement's SQL is built before the callbacks run (Raw), not by
     \* gorm:query (Find, First); HitFlag: the "gorm:cache:hit" setting of part_004
     Built |-> FALSE, HitFlag |-> FALSE,
     \* history of the call, for the properties
     entryError |-> err, executed |-> FALSE, gets |-> 0, sets |-> 0, dels |-> 0,
     derived |-> NoKey, condCalls |-> 0, faults |-> {}, collateral |-> {},
     expect |-> ZeroDest(shape), afterPopulated |-> FALSE, afterEmpty |-> FALSE,
     afterInvalidated |-> FALSE, undecoded |-> FALSE,
     ref |-> [Error |-> "nil", Dest |-> ZeroDest(shape), RowsAffected |-> 0]]

IdleDB ==
    [NewDB("none", "users", NoSchema, "", "[]", "struct", "unset", "user", "unset", "nil")
        EXCEPT !.pc = "idle"]

----------------------------------------------------------------------------
(* The plugin's callbacks *)

calculateRowsAffected(dest) ==
    CASE dest.kind = "slice" -> Len(dest.items)
      [] dest.kind = "struct" -> 1
      [] OTHER -> 0

CondCalls(c, db) == IF SkipCacheConditionCalled(c, db) THEN 1 ELSE 0

\* Variant: a hit fills the destination but leaves no marker in the call's Error.
queryLookup_NoMarker(c, st, t, db, f) ==
    LET cacheKey == generateCacheKey(c, db)
        got == AdapterGet(c, st, t, cacheKey, f)
        seen == [db EXCEPT !.condCalls = @ + CondCalls(c, db),
                           !.gets = @ + 1, !.derived = cacheKey]
    IN  IF got.err # ""
        THEN [seen EXCEPT !.CacheKey = cacheKey]
        ELSE IF SerializerUnmarshalOk(c, got.value, db.Dest, f)
        THEN [seen EXCEPT !.Dest = Unmarshal(got.value, db.Dest)]
        ELSE seen

\* Variant: a failure of Adapter.Get becomes the failure of the read.
queryLookup_GetErrorSurfaces(c, st, t, db, f) ==
    LET cacheKey == generateCacheKey(c, db)
        got == AdapterGet(c, st, t, cacheKey, f)
        seen == [db EXCEPT !.condCalls = @ + CondCalls(c, db),
                           !.gets = @ + 1, !.derived = cacheKey,
                           !.faults = @ \cup (IF f.get THEN {"get"} ELSE {})]
    IN  IF f.get
        THEN [seen EXCEPT !.Error = "prior"]
        ELSE IF got.err # ""
        THEN [seen EXCEPT !.CacheKey = cacheKey]
        ELSE IF SerializerUnmarshalOk(c, got.value, db.Dest, f)
        THEN [seen EXCEPT
                !.Dest = Unmarshal(got.value, db.Dest),
                !.Error = "cachehit",
                !.HitRows = calculateRowsAffected(Unmarshal(got.value, db.Dest))]
        ELSE [seen EXCEPT !.faults = @ \cup (IF f.dec THEN {"dec"} ELSE {})]

\* Variant: a payload that cannot be decoded still marks the call as a hit.
queryLookup_MarkerOnDecodeFailure(c, st, t, db, f) ==
    LET cacheKey == generateCacheKey(c, db)
        got == AdapterGet(c, st, t, cacheKey, f)
        seen == [db EXCEPT !.condCalls = @ + CondCalls(c, db),
                           !.gets = @ + 1, !.derived = cacheKey,
                           !.faults = @ \cup (IF f.get THEN {"get"} ELSE {})]
    IN  IF got.err # ""
        THEN [seen EXCEPT !.CacheKey = cacheKey]
        ELSE IF SerializerUnmarshalOk(c, got.value, db.Dest, f)
        THEN [seen EXCEPT
                !.Dest = Unmarshal(got.value, db.Dest),
                !.Error = "cachehit",
                !.HitRows = calculateRowsAffected(Unmarshal(got.value, db.Dest))]
        ELSE [seen EXCEPT !.faults = @ \cup (IF f.dec THEN {"dec"} ELSE {}),
                          !.undecoded = TRUE,
                          !.Error = "cachehit",
                          !.HitRows = calculateRowsAffected(db.Dest)]

\* Variant: the key is remembered after a payload that cannot be decoded.
queryLookup_KeyOnDecodeFailure(c, st, t, db, f) ==
    LET cacheKey == generateCacheKey(c, db)
        got == AdapterGet(c, st, t, cacheKey, f)
        seen == [db EXCEPT !.condCalls = @ + CondCalls(c, db),
                           !.gets = @ + 1, !.derived = cacheKey,
                           !.faults = @ \cup (IF f.get THEN {"get"} ELSE {})]
    IN  IF got.err # ""
        THEN [seen EXCEPT !.CacheKey = cacheKey]
        ELSE IF SerializerUnmarshalOk(c, got.value, db.Dest, f)
        THEN [seen EXCEPT
                !.Dest = Unmarshal(got.value, db.Dest),
                !.Error = "cachehit",
                !.HitRows = calculateRowsAffected(Unmarshal(got.value, db.Dest))]
        ELSE [seen EXCEPT !.faults = @ \cup (IF f.dec THEN {"dec"} ELSE {}),
                          !.undecoded = TRUE,
                          !.CacheKey = cacheKey]

\* queryCallback from the key on: the lookup, and the hit or the remembered key.
queryLookup(c, st, t, db, f) ==
    LET cacheKey == generateCacheKey(c, db)
        got == AdapterGet(c, st, t, cacheKey, f)
        seen == [db EXCEPT !.condCalls = @ + CondCalls(c, db),
                           !.gets = @ + 1, !.derived = cacheKey,
                           !.faults = @ \cup (IF f.get THEN {"get"} ELSE {})]
    IN  IF got.err # ""
        THEN [seen EXCEPT !.CacheKey = cacheKey]
        ELSE IF SerializerUnmarshalOk(c, got.value, db.Dest, f)
        THEN [seen EXCEPT
                !.Dest = Unmarshal(got.value, db.Dest),
                !.Error = "cachehit",
                !.HitRows = calculateRowsAffected(Unmarshal(got.value, db.Dest))]
        ELSE [seen EXCEPT !.faults = @ \cup (IF f.dec THEN {"dec"} ELSE {}),
                          !.undecoded = TRUE]

\* Variant: no check of the call's Error on entry.
queryCallback_Unguarded(c, st, t, db, f) ==
    IF shouldSkipCache(c, db)
    THEN [db EXCEPT !.condCalls = @ + CondCalls(c, db)]
    ELSE IF ~shouldCacheModel(c, db)
    THEN [db EXCEPT !.condCalls = @ + CondCalls(c, db)]
    ELSE IF db.SQL = ""
    THEN [db EXCEPT !.condCalls = @ + CondCalls(c, db)]
    ELSE queryLookup(c, st, t, db, f)

\* What queryCallback leaves in the call, given the adapter's store at time t.
queryCallback(c, st, t, db, f) ==
    IF db.Error # "nil" THEN db
    ELSE IF shouldSkipCache(c, db)
    THEN [db EXCEPT !.condCalls = @ + CondCalls(c, db)]
    ELSE IF ~shouldCacheModel(c, db)
    THEN [db EXCEPT !.condCalls = @ + CondCalls(c, db)]
    ELSE IF db.SQL = ""
    THEN [db EXCEPT !.condCalls = @ + CondCalls(c, db)]
    ELSE queryLookup(c, st, t, db, f)

\* Variant: a result without rows is stored like any other.
afterQueryMarshals_EmptyToo(c, db) ==
    /\ db.Error = "nil"
    /\ ~shouldSkipCache(c, db)
    /\ shouldCacheModel(c, db)
    /\ db.CacheKey # NoKey

\* Variant: the after hook stores the result whether or not a key was remembered.
afterQueryMarshals_NoKeyNeeded(c, db) ==
    /\ db.Error = "nil"
    /\ ~shouldSkipCache(c, db)
    /\ shouldCacheModel(c, db)
    /\ db.RowsAffected # 0

\* Whether afterQueryCallback reaches Serializer.Marshal, and then Adapter.Set.
afterQueryMarshals(c, db) ==
    /\ db.Error = "nil"
    /\ ~shouldSkipCache(c, db)
    /\ shouldCacheModel(c, db)
    /\ db.CacheKey # NoKey
    /\ db.RowsAffected # 0

afterQuerySets(c, db, f) == afterQueryMarshals(c, db) /\ SerializerMarshalOk(c, db.Dest, f)

\* Variant: the marker of a hit stays in the call's Error.
afterQueryCallback_KeepsMarker(c, db, f) ==
    IF db.Error = "cachehit"
    THEN [db EXCEPT !.RowsAffected = db.HitRows]
    ELSE IF db.Error # "nil" THEN db
    ELSE [db EXCEPT !.condCalls = @ + CondCalls(c, db),
                    !.sets = @ + (IF afterQuerySets(c, db, f) THEN 1 ELSE 0)]

\* Variant: a hit leaves the call's row count as the skipped query left it.
afterQueryCallback_NoRowCount(c, db, f) ==
    IF db.Error = "cachehit"
    THEN [db EXCEPT !.Error = "nil", !.HitRows = 0]
    ELSE IF db.Error # "nil" THEN db
    ELSE [db EXCEPT !.condCalls = @ + CondCalls(c, db),
                    !.sets = @ + (IF afterQuerySets(c, db, f) THEN 1 ELSE 0)]

afterQueryCallback(c, db, f) ==
    IF db.Error = "cachehit"
    THEN [db EXCEPT !.RowsAffected = db.HitRows, !.Error = "nil", !.HitRows = 0]
    ELSE IF db.Error # "nil" THEN db
    ELSE [db EXCEPT !.condCalls = @ + CondCalls(c, db),
                    !.sets = @ + (IF afterQuerySets(c, db, f) THEN 1 ELSE 0),
                    !.faults = @ \cup (IF afterQueryMarshals(c, db) /\ f.enc THEN {"enc"} ELSE {})
                                 \cup (IF afterQuerySets(c, db, f) /\ f.set THEN {"set"} ELSE {})]

\* Variant: the after hook of a hit stores the decoded result again, for a new TTL.
afterQueryStore_RefreshOnHit(c, st, t, db, f) ==
    IF db.Error = "cachehit"
    THEN AdapterSet(c, st, t, db.derived, Marshal(db.Dest), c.TTL, f)
    ELSE IF afterQuerySets(c, db, f)
    THEN AdapterSet(c, st, t, db.CacheKey, Marshal(db.Dest), c.TTL, f)
    ELSE st

\* The store afterQueryCallback leaves.
afterQueryStore(c, st, t, db, f) ==
    IF afterQuerySets(c, db, f)
    THEN AdapterSet(c, st, t, db.CacheKey, Marshal(db.Dest), c.TTL, f)
    ELSE st

\* The earlier plugin (part_004), which marks a hit with the "gorm:cache:hit"
\* setting.  Its queryCallback has no test of db.Error and builds no SQL: a
\* statement whose SQL gorm:query is yet to build has the empty text.
\* Variant: the earlier queryCallback with the test of db.Error in front.
flagQueryCallback_Guarded(c, st, t, db, f) ==
    IF db.Error # "nil" THEN db
    ELSE IF shouldSkipCache(c, db) \/ ~shouldCacheModel(c, db) \/ ~db.Built
    THEN [db EXCEPT !.condCalls = @ + CondCalls(c, db)]
    ELSE LET cacheKey == generateCacheKey(c, db)
             got == AdapterGet(c, st, t, cacheKey, f)
             seen == [db EXCEPT !.condCalls = @ + CondCalls(c, db),
                                !.gets = @ + 1, !.derived = cacheKey]
         IN  IF got.err # "" THEN [seen EXCEPT !.CacheKey = cacheKey]
             ELSE IF UnmarshalOk(got.value, db.Dest)
             THEN [seen EXCEPT !.Dest = Unmarshal(got.value, db.Dest), !.HitFlag = TRUE]
             ELSE [seen EXCEPT !.undecoded = TRUE]

flagQueryCallback(c, st, t, db, f) ==
    IF shouldSkipCache(c, db) \/ ~shouldCacheModel(c, db) \/ ~db.Built
    THEN [db EXCEPT !.condCalls = @ + CondCalls(c, db)]
    ELSE LET cacheKey == generateCacheKey(c, db)
             got == AdapterGet(c, st, t, cacheKey, f)
             seen == [db EXCEPT !.condCalls = @ + CondCalls(c, db),
                                !.gets = @ + 1, !.derived = cacheKey]
         IN  IF got.err # "" THEN [seen EXCEPT !.CacheKey = cacheKey]
             ELSE IF UnmarshalOk(got.value, db.Dest)
             THEN [seen EXCEPT !.Dest = Unmarshal(got.value, db.Dest), !.HitFlag = TRUE]
             ELSE [seen EXCEPT !.undecoded = TRUE]

\* Whether the earlier afterQueryCallback reaches its Adapter.Set.
flagAfterQuerySets(c, db) ==
    /\ ~db.HitFlag
    /\ ~shouldSkipCache(c, db)
    /\ shouldCacheModel(c, db)
    /\ db.Error = "nil"
    /\ db.CacheKey # NoKey

flagAfterQueryCallback(c, db, f) ==
    IF db.HitFlag THEN db
    ELSE [db EXCEPT !.condCalls = @ + CondCalls(c, db),
                    !.sets = @ + (IF flagAfterQuerySets(c, db) THEN 1 ELSE 0)]

flagAfterQueryStore(c, st, t, db, f) ==
    IF flagAfterQuerySets(c, db)
    THEN AdapterSet(c, st, t, db.CacheKey, Marshal(db.Dest), c.TTL, f)
    ELSE st

\* Variant: the mutation's Error is not looked at.
invalidateDeletes_IgnoresError(c, db) == shouldCacheModel(c, db)

\* Variant: a mutation that carries a skip signal invalidates nothing.
invalidateDeletes_HonoursSkip(c, db) ==
    db.Error = "nil" /\ ~shouldSkipCache(c, db) /\ shouldCacheModel(c, db)

\* Whether invalidateCallback reaches its Adapter.DeletePattern.
invalidateDeletes(c, db) == db.Error = "nil" /\ shouldCacheModel(c, db)

invalidateCallback(c, db, f) ==
    [db EXCEPT !.dels = @ + (IF invalidateDeletes(c, db) THEN 1 ELSE 0),
               !.faults = @ \cup (IF invalidateDeletes(c, db) /\ f.del THEN {"del"} ELSE {})]

invalidateStore(c, st, db, f) ==
    IF invalidateDeletes(c, db)
    THEN AdapterDeletePattern(c, st, getModelPattern(c, db), f)
    ELSE st

\* Initialize: whether the invalidation callback is registered for the operation.
\* Variant: one enabled toggle registers the callback for all three operations.
Registered_AnyToggle(c, op) ==
    op \in {"create", "update", "delete"}
        /\ (c.InvalidateOnCreate \/ c.InvalidateOnUpdate \/ c.InvalidateOnDelete)

Registered(c, op) ==
    CASE op = "create" -> c.InvalidateOnCreate
      [] op = "update" -> c.InvalidateOnUpdate
      [] op = "delete" -> c.InvalidateOnDelete
      [] OTHER -> FALSE

----------------------------------------------------------------------------
(* The database behind GORM: per table, the number of rows and the value they hold *)

Table(n, g) == [n |-> n, g |-> g]

RECURSIVE Repeat(_, _)
Repeat(v, n) == IF n = 0 THEN <<>> ELSE <<v>> \o Repeat(v, n - 1)

\* What the "gorm:query" callback scans into the destination, and the rows it counts.
SourceDest(src, db) ==
    CASE db.Dest.kind = "slice" -> [db.Dest EXCEPT !.items = Repeat(src[db.Table].g, src[db.Table].n)]
      [] db.Dest.kind = "struct" ->
            IF src[db.Table].n = 0 THEN db.Dest
            ELSE [db.Dest EXCEPT !.items = <<src[db.Table].g>>]
      [] OTHER -> [db.Dest EXCEPT !.items = <<src[db.Table].n>>]

SourceRows(src, db) ==
    CASE db.Dest.kind = "slice" -> src[db.Table].n
      [] db.Dest.kind = "struct" -> IF src[db.Table].n = 0 THEN 0 ELSE 1
      [] OTHER -> 1

\* The outcome of the query run against the database, failing or not.
RunQuery(src, db, fail) ==
    IF fail THEN [Error |-> "query", Dest |-> db.Dest, RowsAffected |-> 0]
    ELSE [Error |-> "nil", Dest |-> SourceDest(src, db), RowsAffected |-> SourceRows(src, db)]

\* The read as GORM runs it with no cache plugin installed.
NoCacheOutcome(src, db, fail) ==
    IF db.entryError # "nil"
    THEN [Error |-> db.entryError, Dest |-> ZeroDest(db.Dest.kind), RowsAffected |-> 0]
    ELSE RunQuery(src, [db EXCEPT !.Dest = ZeroDest(db.Dest.kind)], fail)

\* "gorm:query": the query runs unless the call carries an error.
gormQuery(src, db, fail) ==
    IF db.Error # "nil" THEN db
    ELSE [db EXCEPT !.Error = RunQuery(src, db, fail).Error,
                    !.Dest = RunQuery(src, db, fail).Dest,
                    !.RowsAffected = RunQuery(src, db, fail).RowsAffected,
                    !.executed = TRUE]

\* "gorm:create", "gorm:update", "gorm:delete" on the table.
Mutate(src, op, table) ==
    CASE op = "create" ->
            [src EXCEPT ![table] = Table(@.n + 1, IF @.n = 0 THEN 1 ELSE @.g)]
      [] op = "update" ->
            [src EXCEPT ![table] = Table(@.n, IF @.n = 0 THEN @.g ELSE 3 - @.g)]
      [] op = "delete" ->
            [src EXCEPT ![table] = Table(IF @.n = 0 THEN 0 ELSE @.n - 1, IF @.n <= 1 THEN 1 ELSE @.g)]
      [] OTHER -> src

----------------------------------------------------------------------------
(* Inputs of the calls *)

\* <<context, role, "gorm:cache:skip" setting>> of a call.
SkipInputs ==
    {<<"unset", "user", "unset">>, <<"true", "user", "unset">>, <<"false", "admin", "unset">>,
     <<"unset", "admin", "unset">>, <<"unset", "user", "true">>, <<"false", "user", "false">>}

Restrict(f, S) == [k \in DOMAIN f \cap S |-> f[k]]

Put(f, k, v) == [x \in DOMAIN f \cup {k} |-> IF x = k THEN v ELSE f[x]]

Empty == [k \in {} |-> 0]

\* The keys the invalidation pattern of a table covers.
KeysOf(c, table, keys) == {k \in keys : PatternMatches(k, c.KeyPrefix \o table \o ":*")}

----------------------------------------------------------------------------
(* Actions *)

\* A caller issues a read: GORM builds the statement and runs "gorm:cache:query".
Query(caller, in) ==
    /\ call[caller].pc \in {"idle", "done"}
    /\ calls < MaxCalls
    /\ \E table \in in.tables, known \in in.known, q \in in.queries, shape \in in.shapes,
          skip \in in.skips, err \in in.errors,
          fget \in GetFaults(cfg), fdec \in CodecFaults(cfg) :
        LET db0 == NewDB("query", table, IF known THEN table ELSE NoSchema, q[1], q[2],
                         shape, skip[1], skip[2], skip[3], err)
            db1 == queryCallback(cfg, store, now, db0, [NoFault EXCEPT !.get = fget, !.dec = fdec])
            k == db1.derived
            live == k \in DOMAIN populated /\ Get(store, now, k).err = ""
        IN  call' = [call EXCEPT ![caller] =
                [db1 EXCEPT
                    !.pc = "query",
                    !.afterPopulated = live,
                    !.expect = IF live THEN populated[k].dest ELSE @,
                    !.afterEmpty = k \in DOMAIN emptyRead /\ emptyRead[k] = "inserted",
                    !.afterInvalidated = k # NoKey /\ db1.Schema \in invalidated]]
    /\ calls' = calls + 1
    /\ UNCHANGED <<cfg, store, now, source, populated, emptyRead, invalidated, probe, mem>>

\* "gorm:query" runs, or is passed over, for the read in flight.
QueryExec(caller, in) ==
    /\ call[caller].pc = "query"
    /\ \E fail \in in.fails :
        call' = [call EXCEPT ![caller] =
            [gormQuery(source, call[caller], fail) EXCEPT
                !.pc = "after",
                !.ref = NoCacheOutcome(source, call[caller], fail)]]
    /\ UNCHANGED <<cfg, store, now, source, calls, populated, emptyRead, invalidated, probe, mem>>

\* "gorm:cache:after_query" runs for the read in flight.
AfterQuery(caller) ==
    /\ call[caller].pc = "after"
    /\ \E fset \in SetFaults(cfg), fenc \in CodecFaults(cfg) :
        LET db == call[caller]
            f == [NoFault EXCEPT !.set = fset, !.enc = fenc]
            k == db.CacheKey
            written == afterQuerySets(cfg, db, f) /\ ~fset
            foundEmpty == /\ db.Error = "nil" /\ ~shouldSkipCache(cfg, db)
                          /\ shouldCacheModel(cfg, db) /\ k # NoKey /\ db.RowsAffected = 0
        IN  /\ call' = [call EXCEPT ![caller] = [afterQueryCallback(cfg, db, f) EXCEPT !.pc = "done"]]
            /\ store' = afterQueryStore(cfg, store, now, db, f)
            /\ populated' = IF written
                            THEN Put(populated, k, [dest |-> db.Dest, schema |-> db.Schema])
                            ELSE populated
            /\ emptyRead' = IF written THEN Restrict(emptyRead, DOMAIN emptyRead \ {k})
                            ELSE IF foundEmpty THEN Put(emptyRead, k, "read")
                            ELSE emptyRead
            /\ invalidated' = IF written
                              THEN {t \in invalidated : k \notin KeysOf(cfg, t, {k})}
                              ELSE invalidated
    /\ UNCHANGED <<cfg, now, source, calls, probe, mem>>

\* A caller issues a create, update or delete: "gorm:create", "gorm:update" or
\* "gorm:delete" runs on the table unless the call carries an error.
Mutation(caller, in) ==
    /\ call[caller].pc \in {"idle", "done"}
    /\ calls < MaxCalls
    /\ \E op \in in.ops, table \in in.tables, known \in in.known,
          skip \in in.skips, err \in in.errors, fail \in in.fails :
        LET db0 == NewDB(op, table, IF known THEN table ELSE NoSchema, "", "[]",
                         "struct", skip[1], skip[2], skip[3], err)
            ran == err = "nil" /\ ~fail
        IN  /\ op = "create" => source[table].n < MaxRows
            /\ call' = [call EXCEPT ![caller] =
                    [db0 EXCEPT
                        !.pc = IF Registered(cfg, op) THEN "mutated" ELSE "done",
                        !.Error = IF err = "nil" /\ fail THEN "query" ELSE err,
                        !.RowsAffected = IF ran THEN 1 ELSE 0,
                        !.executed = err = "nil"]]
            /\ source' = IF ran THEN Mutate(source, op, table) ELSE source
            /\ emptyRead' = IF ran /\ op = "create"
                            THEN [k \in DOMAIN emptyRead |->
                                    IF k \in KeysOf(cfg, table, {k}) THEN "inserted" ELSE emptyRead[k]]
                            ELSE emptyRead
    /\ calls' = calls + 1
    /\ UNCHANGED <<cfg, store, now, populated, invalidated, probe, mem>>

\* "gorm:cache:after_create", "after_update" or "after_delete" runs for the
\* mutation in flight.
Invalidate(caller) ==
    /\ call[caller].pc = "mutated"
    /\ \E fdel \in DelFaults(cfg) :
        LET db == call[caller]
            f == [NoFault EXCEPT !.del = fdel]
            removed == DOMAIN store \ DOMAIN invalidateStore(cfg, store, db, f)
        IN  /\ call' = [call EXCEPT ![caller] =
                    [invalidateCallback(cfg, db, f) EXCEPT
                        !.pc = "done",
                        !.collateral = {k \in removed \cap DOMAIN populated :
                                            populated[k].schema # db.Schema}]]
            /\ store' = invalidateStore(cfg, store, db, f)
            /\ populated' = Restrict(populated, DOMAIN populated \ removed)
            /\ invalidated' =
                IF /\ invalidateDeletes(cfg, db) /\ ~fdel /\ db.op = "update"
                   /\ db.Schema # NoSchema
                   /\ KeysOf(cfg, db.Schema, DOMAIN populated) # {}
                THEN invalidated \cup {db.Schema}
                ELSE invalidated
    /\ UNCHANGED <<cfg, now, source, calls, emptyRead, probe, mem>>

\* A minute passes.
Tick ==
    /\ now < MaxTime
    /\ now' = now + 1
    /\ UNCHANGED <<cfg, store, source, call, calls, populated, emptyRead, invalidated, probe, mem>>

\* The sweeper's ticker fires: startCleanup calls cleanup.
Sweep ==
    /\ cfg.Adapter = "memory"
    /\ store' = cleanup(store, now)
    /\ store' # store
    /\ populated' = Restrict(populated, DOMAIN store')
    /\ UNCHANGED <<cfg, now, source, call, calls, emptyRead, invalidated, probe, mem>>

\* shouldSkipCache is applied to the call of the probe.
ApplyShouldSkipCache ==
    /\ probe.fn = "shouldSkipCache"
    /\ ~probe.applied
    /\ probe' = [probe EXCEPT !.applied = TRUE,
                               !.out = shouldSkipCache(cfg, probe.db),
                               !.called = SkipCacheConditionCalled(cfg, probe.db)]
    /\ UNCHANGED <<cfg, store, now, source, call, calls, populated, emptyRead, invalidated, mem>>

\* shouldCacheModel is applied to the call of the probe.
ApplyShouldCacheModel ==
    /\ probe.fn = "shouldCacheModel"
    /\ ~probe.applied
    /\ probe' = [probe EXCEPT !.applied = TRUE,
                               !.out = shouldCacheModel(cfg, probe.db)]
    /\ UNCHANGED <<cfg, store, now, source, call, calls, populated, emptyRead, invalidated, mem>>

----------------------------------------------------------------------------
(* The in-memory adapter driven directly, as its tests drive it.  probe holds the *)
(* last call and its result, populated the last Set of each key that no Delete,   *)
(* DeletePattern or Clear has covered since.                                      *)

NoSet == [value |-> "", ttl |-> 0, at |-> 0, over |-> FALSE, revived |-> FALSE]

NoItem == [value |-> "", expiration |-> -1]

ItemOf(st, key) == IF key \in DOMAIN st THEN st[key] ELSE NoItem

AdapterCall(fn, key, t, before, after, out, last) ==
    [fn |-> fn, key |-> key, at |-> t, before |-> before, after |-> after,
     out |-> out, last |-> last]

MemSet(in) ==
    /\ calls < MaxCalls
    /\ \E key \in in.keys, value \in in.values, ttl \in in.ttls :
        /\ store' = Set(store, now, key, value, ttl)
        /\ populated' = Put(populated, key,
                [value |-> value, ttl |-> ttl, at |-> now,
                 over |-> key \in DOMAIN store,
                 revived |-> key \in DOMAIN store /\ Get(store, now, key).err # ""])
        /\ probe' = AdapterCall("Set", key, now, ItemOf(store, key), ItemOf(store', key),
                                [err |-> "", value |-> ""], NoSet)
    /\ calls' = calls + 1
    /\ UNCHANGED <<cfg, now, source, call, emptyRead, invalidated, mem>>

MemGet(in) ==
    /\ \E key \in in.keys :
        probe' = AdapterCall("Get", key, now, ItemOf(store, key), ItemOf(store, key),
                             Get(store, now, key),
                             IF key \in DOMAIN populated THEN populated[key] ELSE NoSet)
    /\ UNCHANGED <<cfg, store, now, source, call, calls, populated, emptyRead, invalidated, mem>>

MemDelete(in) ==
    /\ calls < MaxCalls
    /\ \E key \in in.keys :
        /\ store' = Delete(store, key)
        /\ populated' = Restrict(populated, DOMAIN populated \ {key})
        /\ probe' = AdapterCall("Delete", key, now, store, store',
                                [err |-> DeleteError(store, key), value |-> ""], NoSet)
    /\ calls' = calls + 1
    /\ UNCHANGED <<cfg, now, source, call, emptyRead, invalidated, mem>>

\* The pattern is the literal prefix followed by "*".
MemDeletePattern(in) ==
    /\ calls < MaxCalls
    /\ \E prefix \in in.prefixes :
        /\ store' = DeletePattern(store, prefix \o "*")
        /\ populated' = Restrict(populated, {k \in DOMAIN populated : ~HasPrefix(k, prefix)})
        /\ probe' = AdapterCall("DeletePattern", prefix, now, store, store',
                                [err |-> "", value |-> ""], NoSet)
    /\ calls' = calls + 1
    /\ UNCHANGED <<cfg, now, source, call, emptyRead, invalidated, mem>>

MemClear ==
    /\ calls < MaxCalls
    /\ store # Empty
    /\ store' = Clear(store)
    /\ populated' = Empty
    /\ probe' = AdapterCall("Clear", "", now, store, store', [err |-> "", value |-> ""], NoSet)
    /\ calls' = calls + 1
    /\ UNCHANGED <<cfg, now, source, call, emptyRead, invalidated, mem>>

\* The sweeper's ticker fires; what the sweep removes stays in the history.
MemSweep ==
    /\ store' = cleanup(store, now)
    /\ store' # store
    /\ UNCHANGED <<cfg, now, source, call, calls, populated, emptyRead, invalidated, probe, mem>>

\* sync.RWMutex: Lock takes the writers' mutex and announces the writer, then waits
\* for the readers inside to leave; RLock waits while a writer is announced.
\* Variant: RLock is granted while a writer holds the lock.
CanRLock_IgnoresWriter(m) == TRUE

CanRLock(m) == m.writer = "none"

CanLock(m) == m.writer = "none"

Drained(m) == m.readers = {}

\* The calls a goroutine can make on the adapter, each at its first statement.
TaskCalls(in) ==
    {[NoTask EXCEPT !.pc = "rlock", !.fn = "Get", !.key = k] : k \in in.keys}
    \cup {[NoTask EXCEPT !.pc = "lock", !.fn = "Set", !.key = k, !.value = v, !.ttl = ttl] :
            k \in in.keys, v \in in.values, ttl \in in.ttls}
    \cup {[NoTask EXCEPT !.pc = "lock", !.fn = "Delete", !.key = k] : k \in in.keys}
    \cup {[NoTask EXCEPT !.pc = "lock", !.fn = "DeletePattern", !.key = p \o "*"] :
            p \in in.prefixes}
    \cup {[NoTask EXCEPT !.pc = "lock", !.fn = "Clear"]}
    \cup {[NoTask EXCEPT !.pc = "close", !.fn = "Close"]}

\* A goroutine calls a method of the adapter.
TaskCall(g, in) ==
    /\ ~mem.panicked
    /\ mem.task[g].pc = "idle"
    /\ \E t \in TaskCalls(in) : mem' = [mem EXCEPT !.task[g] = t]
    /\ UNCHANGED <<cfg, store, now, source, call, calls, populated, emptyRead, invalidated, probe>>

\* Get: m.mu.RLock().
TaskRLock(g) ==
    /\ ~mem.panicked
    /\ mem.task[g].pc = "rlock"
    /\ CanRLock(mem)
    /\ mem' = [mem EXCEPT !.readers = @ \cup {g}, !.task[g].pc = "read"]
    /\ UNCHANGED <<cfg, store, now, source, call, calls, populated, emptyRead, invalidated, probe>>

\* Get: the lookup and the expiry test, then the deferred RUnlock.
TaskRead(g) ==
    /\ ~mem.panicked
    /\ mem.task[g].pc = "read"
    /\ mem' = [mem EXCEPT !.readers = @ \ {g},
                          !.task[g] = [NoTask EXCEPT !.out = Get(store, now, mem.task[g].key)]]
    /\ UNCHANGED <<cfg, store, now, source, call, calls, populated, emptyRead, invalidated, probe>>

\* Set, Delete, DeletePattern, Clear and cleanup: m.mu.Lock() is entered.
TaskLock(g) ==
    /\ ~mem.panicked
    /\ mem.task[g].pc = "lock"
    /\ CanLock(mem)
    /\ mem' = [mem EXCEPT !.writer = g, !.task[g].pc = "drain"]
    /\ UNCHANGED <<cfg, store, now, source, call, calls, populated, emptyRead, invalidated, probe>>

\* m.mu.Lock() returns once the readers that were inside have left.
TaskLocked(g) ==
    /\ ~mem.panicked
    /\ mem.task[g].pc = "drain"
    /\ Drained(mem)
    /\ mem' = [mem EXCEPT !.task[g].pc = IF mem.task[g].fn = "DeletePattern" THEN "scan" ELSE "body"]
    /\ UNCHANGED <<cfg, store, now, source, call, calls, populated, emptyRead, invalidated, probe>>

\* Set, Delete, Clear: the body under the lock, then the deferred Unlock.
TaskBody(g) ==
    /\ ~mem.panicked
    /\ mem.task[g].pc = "body"
    /\ mem.task[g].fn \in {"Set", "Delete", "Clear"}
    /\ LET t == mem.task[g]
       IN  store' = CASE t.fn = "Set" -> Set(store, now, t.key, t.value, t.ttl)
                      [] t.fn = "Delete" -> Delete(store, t.key)
                      [] OTHER -> Clear(store)
    /\ mem' = [mem EXCEPT !.writer = "none", !.task[g] = NoTask]
    /\ UNCHANGED <<cfg, now, source, call, calls, populated, emptyRead, invalidated, probe>>

\* DeletePattern: the loop that collects keysToDelete.
TaskScan(g) ==
    /\ ~mem.panicked
    /\ mem.task[g].pc = "scan"
    /\ mem' = [mem EXCEPT !.task[g].pc = "remove",
                          !.task[g].keys = {k \in DOMAIN store : PatternMatches(k, mem.task[g].key)}]
    /\ UNCHANGED <<cfg, store, now, source, call, calls, populated, emptyRead, invalidated, probe>>

\* DeletePattern: one delete of the second loop, or the deferred Unlock after the last.
TaskRemove(g) ==
    /\ ~mem.panicked
    /\ mem.task[g].pc = "remove"
    /\ IF mem.task[g].keys = {}
       THEN /\ mem' = [mem EXCEPT !.writer = "none", !.task[g] = NoTask]
            /\ store' = store
       ELSE \E k \in mem.task[g].keys :
            /\ mem' = [mem EXCEPT !.task[g].keys = @ \ {k}, !.task[g].removed = @ \cup {k}]
            /\ store' = Delete(store, k)
    /\ UNCHANGED <<cfg, now, source, call, calls, populated, emptyRead, invalidated, probe>>

\* Close: m.cleanUp = false, with no lock held.
TaskCloseFlag(g) ==
    /\ ~mem.panicked
    /\ mem.task[g].pc = "close"
    /\ mem' = [mem EXCEPT !.cleanUp = FALSE, !.task[g].pc = "stop"]
    /\ UNCHANGED <<cfg, store, now, source, call, calls, populated, emptyRead, invalidated, probe>>

\* Close: close(m.stopCh) and return; closing a closed channel panics.
TaskCloseChan(g) ==
    /\ ~mem.panicked
    /\ mem.task[g].pc = "stop"
    /\ mem' = IF mem.stopCh = "closed"
              THEN [mem EXCEPT !.panicked = TRUE]
              ELSE [mem EXCEPT !.stopCh = "closed", !.closeReturned = TRUE, !.task[g] = NoTask]
    /\ UNCHANGED <<cfg, store, now, source, call, calls, populated, emptyRead, invalidated, probe>>

\* What a read of cleanUp with no lock held can return: the write of Close is not
\* ordered before it, so after the write the read sees the old or the new value.
CleanUpSeen(m) == IF m.cleanUp THEN {TRUE} ELSE BOOLEAN

\* startCleanup: the ticker's case of the select, with the test of cleanUp.
SweeperTick ==
    /\ ~mem.panicked
    /\ mem.task[Sweeper].pc = "select"
    /\ \E seen \in CleanUpSeen(mem) :
        mem' = [mem EXCEPT !.task[Sweeper].pc = IF seen THEN "lock" ELSE "stopped",
                           !.task[Sweeper].out = NoTask.out]
    /\ UNCHANGED <<cfg, store, now, source, call, calls, populated, emptyRead, invalidated, probe>>

\* startCleanup: the stop channel's case of the select.
SweeperStop ==
    /\ ~mem.panicked
    /\ mem.task[Sweeper].pc = "select"
    /\ mem.stopCh = "closed"
    /\ mem' = [mem EXCEPT !.task[Sweeper].pc = "stopped"]
    /\ UNCHANGED <<cfg, store, now, source, call, calls, populated, emptyRead, invalidated, probe>>

\* cleanup: the sweep under the lock, then the deferred Unlock and back to the select.
SweeperCleanup ==
    /\ ~mem.panicked
    /\ mem.task[Sweeper].pc = "body"
    /\ store' = cleanup(store, now)
    /\ mem' = [mem EXCEPT !.writer = "none",
                          !.task[Sweeper].pc = "select",
                          !.task[Sweeper].out =
                              [err |-> "", value |-> IF store' # store THEN "swept" ELSE ""],
                          !.lateSweep = @ \/ mem.closeReturned]
    /\ UNCHANGED <<cfg, now, source, call, calls, populated, emptyRead, invalidated, probe>>

\* redis_adapter.go: RedisAdapter.  The server's keyspace is the store; SCAN matches
\* keys against a glob pattern, of which the model follows "*".
RECURSIVE Glob(_, _)
Glob(key, pattern) ==
    IF pattern = "" THEN key = ""
    ELSE IF SubSeq(pattern, 1, 1) = "*"
         THEN \/ Glob(key, SubSeq(pattern, 2, Len(pattern)))
              \/ key # "" /\ Glob(SubSeq(key, 2, Len(key)), pattern)
         ELSE /\ key # ""
              /\ SubSeq(key, 1, 1) = SubSeq(pattern, 1, 1)
              /\ Glob(SubSeq(key, 2, Len(key)), SubSeq(pattern, 2, Len(pattern)))

NoRedisCall ==
    [fn |-> "RedisDeletePattern", pc |-> "idle", pattern |-> "", pending |-> {}, pipe |-> {},
     iterErr |-> "", out |-> "", executed |-> FALSE]

\* RedisAdapter.Set with no expiry; the call is over before the next one starts.
RedisSet(in) ==
    /\ probe.fn = "RedisDeletePattern"
    /\ probe.pc \in {"idle", "done"}
    /\ \E key \in in.keys, value \in in.values :
        store' = Set(store, now, key, value, 0)
    /\ probe' = NoRedisCall
    /\ UNCHANGED <<cfg, now, source, call, calls, populated, emptyRead, invalidated, mem>>

\* DeletePattern: r.client.Scan(...).Iterator() and r.client.Pipeline().
RedisScan(in) ==
    /\ probe.fn = "RedisDeletePattern"
    /\ probe.pc \in {"idle", "done"}
    /\ \E prefix \in in.prefixes :
        probe' = [NoRedisCall EXCEPT
                    !.pc = "next", !.pattern = prefix \o "*",
                    !.pending = {k \in DOMAIN store : Glob(k, prefix \o "*")}]
    /\ UNCHANGED <<cfg, store, now, source, call, calls, populated, emptyRead, invalidated, mem>>

\* DeletePattern: iter.Next yields a key and pipe.Del queues it, or iter.Next ends
\* the loop, at the end of the scan or on an error of the cursor.
RedisNext(in) ==
    /\ probe.fn = "RedisDeletePattern"
    /\ probe.pc = "next"
    /\ \/ \E k \in probe.pending :
            probe' = [probe EXCEPT !.pending = @ \ {k}, !.pipe = @ \cup {k}]
       \/ /\ probe.pending = {}
          /\ probe' = [probe EXCEPT !.pc = "check"]
       \/ \E fail \in in.fails :
            /\ fail
            /\ probe' = [probe EXCEPT !.pc = "check", !.iterErr = "scan"]
    /\ UNCHANGED <<cfg, store, now, source, call, calls, populated, emptyRead, invalidated, mem>>

\* DeletePattern: whether pipe.Exec is reached: only when iter.Err() is nil.
RedisFlushes(p) == p.iterErr = ""

\* DeletePattern: the test of iter.Err(), then pipe.Exec and the return.
RedisReturn(in) ==
    /\ probe.fn = "RedisDeletePattern"
    /\ probe.pc = "check"
    /\ \E fail \in in.fails :
        LET flushed == RedisFlushes(probe) /\ ~fail
        IN  /\ store' = IF flushed THEN Restrict(store, DOMAIN store \ probe.pipe) ELSE store
            /\ probe' = [probe EXCEPT
                            !.pc = "done",
                            !.executed = RedisFlushes(probe),
                            !.out = IF probe.iterErr # "" THEN probe.iterErr
                                    ELSE IF fail THEN "exec" ELSE ""]
    /\ UNCHANGED <<cfg, now, source, call, calls, populated, emptyRead, invalidated, mem>>

\* Another user of the same adapter stores an entry under a key of its own.
ForeignSet(in) ==
    /\ \E key \in in.keys, value \in in.values :
        /\ key \notin DOMAIN store
        /\ store' = Set(store, now, key, value, 0)
    /\ UNCHANGED <<cfg, now, source, call, calls, populated, emptyRead, invalidated, probe, mem>>

\* New and DefaultConfig, counted by the in-memory adapters they construct: New
\* constructs one when the configuration has none, and calls DefaultConfig() for
\* an unset TTL and for an unset KeyPrefix; each DefaultConfig() constructs one, and
\* each NewMemoryAdapter starts a sweeper.
DefaultConfigAdapters == 1

NewAdapters(config) ==
    (IF config.Adapter = "nil" THEN 1 ELSE 0)
    + (IF config.TTL = 0 THEN DefaultConfigAdapters ELSE 0)
    + (IF config.KeyPrefix = "" THEN DefaultConfigAdapters ELSE 0)

NoEngines == [fn |-> "engines", engines |-> <<>>, sweepers |-> 0]

\* A caller builds a configuration, with an adapter of its own or none, and
\* constructs an engine with New.
EngineNew(configs) ==
    /\ probe.fn = "engines"
    /\ calls < MaxCalls
    /\ \E config \in configs :
        probe' = [probe EXCEPT
            !.engines = Append(@, [adapter |-> New(config).Adapter, open |-> TRUE]),
            !.sweepers = @ + (IF config.Adapter = "memory" THEN 1 ELSE 0) + NewAdapters(config)]
    /\ calls' = calls + 1
    /\ UNCHANGED <<cfg, store, now, source, call, populated, emptyRead, invalidated, mem>>

\* CachePlugin.Close of an engine not closed before: its adapter's Close, which
\* stops the sweeper of an in-memory adapter.
EngineClose ==
    /\ probe.fn = "engines"
    /\ \E i \in DOMAIN probe.engines :
        /\ probe.engines[i].open
        /\ probe' = [probe EXCEPT
            !.engines[i].open = FALSE,
            !.sweepers = @ - (IF probe.engines[i].adapter = "memory" THEN 1 ELSE 0)]
    /\ UNCHANGED <<cfg, store, now, source, call, calls, populated, emptyRead, invalidated, mem>>

\* generateCacheKey is applied to the two calls of the probe.
ApplyGenerateCacheKey ==
    /\ probe.fn = "generateCacheKey"
    /\ ~probe.applied
    /\ probe' = [probe EXCEPT !.applied = TRUE,
                               !.out = <<generateCacheKey(cfg, probe.a),
                                         generateCacheKey(cfg, probe.b)>>]
    /\ UNCHANGED <<cfg, store, now, source, call, calls, populated, emptyRead, invalidated, mem>>

\* The two plugins run side by side: the callbacks of part_003 and those of
\* part_004 on the same call, against the same store, around the same gorm:query.
ApplyVariants ==
    /\ probe.fn = "variants"
    /\ ~probe.applied
    /\ LET s1 == queryCallback(cfg, store, now, probe.db, NoFault)
           s2 == gormQuery(source, s1, probe.fail)
           f1 == flagQueryCallback(cfg, store, now, probe.db, NoFault)
           f2 == gormQuery(source, f1, probe.fail)
       IN  probe' = [probe EXCEPT
                !.applied = TRUE,
                !.sentinel = [db |-> afterQueryCallback(cfg, s2, NoFault),
                              store |-> afterQueryStore(cfg, store, now, s2, NoFault)],
                !.flag = [db |-> flagAfterQueryCallback(cfg, f2, NoFault),
                          store |-> flagAfterQueryStore(cfg, store, now, f2, NoFault),
                          before |-> f1]]
    /\ UNCHANGED <<cfg, store, now, source, call, calls, populated, emptyRead, invalidated, mem>>

----------------------------------------------------------------------------
(* Specifications *)

NoProbe == [fn |-> "none"]

\* The configurations the plugin is constructed with: in-memory adapter, JSON codec.
UserConfigs ==
    {[ZeroConfig EXCEPT !.Adapter = "memory", !.TTL = ttl,
                        !.InvalidateOnUpdate = u, !.InvalidateOnCreate = u] :
        ttl \in {1}, u \in BOOLEAN}

InitWith(configs) ==
    /\ cfg \in {New(uc) : uc \in configs}
    /\ store = Empty
    /\ now = 1
    /\ source \in {[t \in Tables |-> IF t = "users" THEN Table(n, 1) ELSE Table(1, 1)] :
                        n \in {0, 1}}
    /\ call = [caller \in Callers |-> IdleDB]
    /\ calls = 0
    /\ populated = Empty
    /\ emptyRead = Empty
    /\ invalidated = {}
    /\ probe = NoProbe
    /\ mem = NewMemoryAdapter

Init == InitWith(UserConfigs)

\* The calls of the basic scenarios: reads and writes of two models, no skip signal.
BasicCalls ==
    [tables |-> Tables, known |-> {TRUE}, queries |-> {<<"", "[]">>},
     shapes |-> {"struct", "slice"}, skips |-> {<<"unset", "user", "unset">>},
     errors |-> {"nil"}, fails |-> {FALSE},
     ops |-> {"create", "update", "delete"}]

Next ==
    \/ Query("c1", BasicCalls)
    \/ QueryExec("c1", BasicCalls)
    \/ AfterQuery("c1")
    \/ Mutation("c1", BasicCalls)
    \/ Invalidate("c1")
    \/ Tick
    \/ Sweep

Spec == Init /\ [][Next]_vars

\* Reads and updates of one model through an adapter and a codec that can fail,
\* with and without a failure already in the call.
FailingCalls ==
    [tables |-> {"users"}, known |-> {TRUE}, queries |-> {<<"", "[]">>},
     shapes |-> {"struct", "slice"}, skips |-> {<<"unset", "user", "unset">>},
     errors |-> {"nil", "prior"}, fails |-> BOOLEAN,
     ops |-> {"update"}]

FailingConfigs ==
    {[ZeroConfig EXCEPT !.Adapter = "remote", !.Serializer = "custom", !.TTL = 1,
                        !.InvalidateOnUpdate = u] : u \in BOOLEAN}

InitFailing == InitWith(FailingConfigs)

NextFailing ==
    \/ Query("c1", FailingCalls)
    \/ QueryExec("c1", FailingCalls)
    \/ AfterQuery("c1")
    \/ Mutation("c1", FailingCalls)
    \/ Invalidate("c1")
    \/ Tick

SpecFailing == InitFailing /\ [][NextFailing]_vars

\* Reads of one model under every skip signal, with and without the predicate.
SkipCalls ==
    [tables |-> {"users"}, known |-> {TRUE}, queries |-> {<<"", "[]">>},
     shapes |-> {"slice"}, skips |-> SkipInputs,
     errors |-> {"nil", "prior"}, fails |-> BOOLEAN,
     ops |-> {"create"}]

SkipConfigs ==
    {[ZeroConfig EXCEPT !.Adapter = "memory", !.TTL = 1, !.SkipCacheCondition = p] :
        p \in {"nil", "isAdmin"}}

InitSkip == InitWith(SkipConfigs)

NextSkip ==
    \/ Query("c1", SkipCalls)
    \/ QueryExec("c1", SkipCalls)
    \/ AfterQuery("c1")
    \/ Mutation("c1", SkipCalls)
    \/ Tick

SpecSkip == InitSkip /\ [][NextSkip]_vars

\* The policy functions on their own: every allow-list and predicate setting,
\* applied to a call with every context, role, skip setting and model identity.
PolicyConfigs ==
    {[ZeroConfig EXCEPT !.CacheModels = m, !.SkipCacheCondition = p] :
        m \in SUBSET ModelValues, p \in {"nil", "isAdmin"}}

PolicyContexts == {"nil", "unset", SkipCacheContext("unset"), WithSkipCache("unset", FALSE)}

Probe(fn, db) == [fn |-> fn, db |-> db, applied |-> FALSE, out |-> FALSE, called |-> FALSE]

PolicyProbes ==
    {Probe("shouldSkipCache",
           NewDB("query", "users", "users", "", "[]", "slice", ctx, role, setting, "nil")) :
        ctx \in PolicyContexts, role \in {"user", "admin"},
        setting \in {"unset", "true", "false"}}
    \cup
    {Probe("shouldCacheModel",
           NewDB("query", "users", schema, "", "[]", "slice", "unset", "user", "unset", "nil")) :
        schema \in Tables \cup {NoSchema}}

InitPolicy ==
    /\ cfg \in {New(uc) : uc \in PolicyConfigs}
    /\ store = Empty
    /\ now = 1
    /\ source = [t \in Tables |-> Table(0, 1)]
    /\ call = [caller \in Callers |-> IdleDB]
    /\ calls = 0
    /\ populated = Empty
    /\ emptyRead = Empty
    /\ invalidated = {}
    /\ probe \in PolicyProbes
    /\ mem = NewMemoryAdapter

NextPolicy ==
    \/ ApplyShouldSkipCache
    \/ ApplyShouldCacheModel

SpecPolicy == InitPolicy /\ [][NextPolicy]_vars

\* Reads and updates of two models, with and without a model identity, under an
\* allow-list that names the first model, by value or by pointer.
AllowCalls ==
    [tables |-> Tables, known |-> BOOLEAN, queries |-> {<<"", "[]">>},
     shapes |-> {"slice"}, skips |-> {<<"unset", "user", "unset">>},
     errors |-> {"nil"}, fails |-> {FALSE},
     ops |-> {"update"}]

AllowConfigs ==
    {[ZeroConfig EXCEPT !.Adapter = "memory", !.TTL = 1, !.CacheModels = {m},
                        !.InvalidateOnUpdate = TRUE, !.InvalidateOnCreate = TRUE,
                        !.InvalidateOnDelete = TRUE] : m \in {"User{}", "&User{}"}}

InitAllow == InitWith(AllowConfigs)

NextAllow ==
    \/ Query("c1", AllowCalls)
    \/ QueryExec("c1", AllowCalls)
    \/ AfterQuery("c1")
    \/ Mutation("c1", AllowCalls)
    \/ Invalidate("c1")
    \/ Tick
    \/ Sweep

SpecAllow == InitAllow /\ [][NextAllow]_vars

\* Reads, creates, updates and deletes of one model under every setting of the
\* three invalidation toggles; all three FALSE is the literal that sets none.
ToggleCalls ==
    [tables |-> {"users"}, known |-> {TRUE}, queries |-> {<<"", "[]">>},
     shapes |-> {"slice"}, skips |-> {<<"unset", "user", "unset">>},
     errors |-> {"nil"}, fails |-> {FALSE},
     ops |-> {"create", "update", "delete"}]

ToggleConfigs ==
    {[ZeroConfig EXCEPT !.Adapter = "memory", !.TTL = 1,
                        !.InvalidateOnCreate = c, !.InvalidateOnUpdate = u,
                        !.InvalidateOnDelete = d] : c \in BOOLEAN, u \in BOOLEAN, d \in BOOLEAN}

InitToggles == InitWith(ToggleConfigs)

NextToggles ==
    \/ Query("c1", ToggleCalls)
    \/ QueryExec("c1", ToggleCalls)
    \/ AfterQuery("c1")
    \/ Mutation("c1", ToggleCalls)
    \/ Invalidate("c1")
    \/ Tick
    \/ Sweep

SpecToggles == InitToggles /\ [][NextToggles]_vars

\* The adapter on its own: lifetimes that end, that do not, and overwrites.
MemoryInputs ==
    [keys |-> {"user:1", "order:1"}, values |-> {"a", "b"}, ttls |-> {-1, 0, 1, 2},
     prefixes |-> {"user:", ""}]

InitMemory ==
    /\ cfg = New([ZeroConfig EXCEPT !.Adapter = "memory"])
    /\ store = Empty
    /\ now = 1
    /\ source = [t \in Tables |-> Table(0, 1)]
    /\ call = [caller \in Callers |-> IdleDB]
    /\ calls = 0
    /\ populated = Empty
    /\ emptyRead = Empty
    /\ invalidated = {}
    /\ probe = NoProbe
    /\ mem = NewMemoryAdapter

NextMemory ==
    \/ MemSet(MemoryInputs)
    \/ MemGet(MemoryInputs)
    \/ MemDelete(MemoryInputs)
    \/ MemDeletePattern(MemoryInputs)
    \/ MemClear
    \/ Tick
    \/ MemSweep

SpecMemory == InitMemory /\ [][NextMemory]_vars

\* The adapter on its own: keys of two models and a key with a "*" in it, removed
\* one by one and by prefix.
PatternInputs ==
    [keys |-> {"user:1", "user:2", "order:1", "u*:1"}, values |-> {"a"}, ttls |-> {0, 2},
     prefixes |-> {"user:", "order:1", "u*", ""}]

NextPatterns ==
    \/ MemSet(PatternInputs)
    \/ MemGet(PatternInputs)
    \/ MemDelete(PatternInputs)
    \/ MemDeletePattern(PatternInputs)
    \/ MemClear

SpecPatterns == InitMemory /\ [][NextPatterns]_vars

\* Key derivation on its own: pairs of reads of two tables, with and without a
\* model identity, with bound parameters that json.Marshal encodes and one (NaN)
\* that it rejects.
KeyQueries ==
    {<<"", "[]">>}
    \cup {<<w, v>> : w \in {" WHERE id = ?", " WHERE score > ?"}, v \in {"[1]", "[2]", "[NaN]"}}

KeyCalls ==
    {NewDB("query", table, IF known THEN table ELSE NoSchema, q[1], q[2],
           "slice", "unset", "user", "unset", "nil") :
        table \in Tables, known \in BOOLEAN, q \in KeyQueries}

KeyConfigs == {ZeroConfig, [ZeroConfig EXCEPT !.KeyPrefix = "app:"]}

InitKeys ==
    /\ cfg \in {New(uc) : uc \in KeyConfigs}
    /\ store = Empty
    /\ now = 1
    /\ source = [t \in Tables |-> Table(0, 1)]
    /\ call = [caller \in Callers |-> IdleDB]
    /\ calls = 0
    /\ populated = Empty
    /\ emptyRead = Empty
    /\ invalidated = {}
    /\ probe \in {[fn |-> "generateCacheKey", a |-> a, b |-> b, applied |-> FALSE,
                   out |-> <<"", "">>] : a \in KeyCalls, b \in KeyCalls}
    /\ mem = NewMemoryAdapter

NextKeys == ApplyGenerateCacheKey

SpecKeys == InitKeys /\ [][NextKeys]_vars

\* Reads of one model into a struct, a slice and a destination that is neither,
\* between creates that change the number of rows.
ShapeCalls ==
    [tables |-> {"users"}, known |-> {TRUE}, queries |-> {<<"", "[]">>},
     shapes |-> {"struct", "slice", "other"}, skips |-> {<<"unset", "user", "unset">>},
     errors |-> {"nil"}, fails |-> {FALSE},
     ops |-> {"create"}]

ShapeConfigs ==
    {[ZeroConfig EXCEPT !.Adapter = "memory", !.InvalidateOnCreate = TRUE]}

InitShapes == InitWith(ShapeConfigs)

NextShapes ==
    \/ Query("c1", ShapeCalls)
    \/ QueryExec("c1", ShapeCalls)
    \/ AfterQuery("c1")
    \/ Mutation("c1", ShapeCalls)
    \/ Invalidate("c1")

SpecShapes == InitShapes /\ [][NextShapes]_vars

\* Two callers on one engine and one adapter: c1 reads a model into a slice while
\* c2 creates rows of it; every callback of one call may run between two callbacks
\* of the other.
ReaderCalls ==
    [tables |-> {"users"}, known |-> {TRUE}, queries |-> {<<"", "[]">>},
     shapes |-> {"slice"}, skips |-> {<<"unset", "user", "unset">>},
     errors |-> {"nil"}, fails |-> {FALSE},
     ops |-> {}]

WriterCalls == [ReaderCalls EXCEPT !.ops = {"create"}]

ConcurrentConfigs ==
    {[ZeroConfig EXCEPT !.Adapter = "memory", !.InvalidateOnCreate = TRUE]}

InitConcurrent == InitWith(ConcurrentConfigs)

NextConcurrent ==
    \/ Query("c1", ReaderCalls)
    \/ QueryExec("c1", ReaderCalls)
    \/ AfterQuery("c1")
    \/ Mutation("c2", WriterCalls)
    \/ Invalidate("c2")
    \/ Tick

SpecConcurrent == InitConcurrent /\ [][NextConcurrent]_vars

\* The adapter under two goroutines and its sweeper, statement by statement.
TaskInputs ==
    [keys |-> {"user:1", "user:2"}, values |-> {"a"}, ttls |-> {0, 1}, prefixes |-> {"user:"}]

InitTasks == InitMemory

NextTasks ==
    \/ \E g \in Goroutines : TaskCall(g, TaskInputs)
    \/ \E g \in Goroutines : TaskRLock(g)
    \/ \E g \in Goroutines : TaskRead(g)
    \/ \E g \in Goroutines \cup {Sweeper} : TaskLock(g)
    \/ \E g \in Goroutines \cup {Sweeper} : TaskLocked(g)
    \/ \E g \in Goroutines : TaskBody(g)
    \/ \E g \in Goroutines : TaskScan(g)
    \/ \E g \in Goroutines : TaskRemove(g)
    \/ \E g \in Goroutines : TaskCloseFlag(g)
    \/ \E g \in Goroutines : TaskCloseChan(g)
    \/ SweeperTick
    \/ SweeperStop
    \/ SweeperCleanup
    \/ Tick

SpecTasks == InitTasks /\ [][NextTasks]_vars

\* The same adapter with one key that expires, scheduled fairly: the ticker keeps
\* firing, a goroutine that holds the lock runs on to its Unlock, and a goroutine
\* blocked in Lock is granted the writers' mutex (sync.Mutex hands it to a waiter
\* that has waited long).
SweepInputs ==
    [keys |-> {"user:1"}, values |-> {"a"}, ttls |-> {1}, prefixes |-> {"user:"}]

NextSweeping ==
    \/ \E g \in Goroutines : TaskCall(g, SweepInputs)
    \/ \E g \in Goroutines : TaskRLock(g)
    \/ \E g \in Goroutines : TaskRead(g)
    \/ \E g \in Goroutines \cup {Sweeper} : TaskLock(g)
    \/ \E g \in Goroutines \cup {Sweeper} : TaskLocked(g)
    \/ \E g \in Goroutines : TaskBody(g)
    \/ \E g \in Goroutines : TaskScan(g)
    \/ \E g \in Goroutines : TaskRemove(g)
    \/ \E g \in Goroutines : TaskCloseFlag(g)
    \/ \E g \in Goroutines : TaskCloseChan(g)
    \/ SweeperTick
    \/ SweeperStop
    \/ SweeperCleanup
    \/ Tick

FairScheduling ==
    /\ WF_vars(SweeperTick)
    /\ SF_vars(TaskLock(Sweeper))
    /\ WF_vars(TaskLocked(Sweeper))
    /\ WF_vars(SweeperCleanup)
    /\ \A g \in Goroutines :
        /\ WF_vars(TaskLocked(g))
        /\ WF_vars(TaskRead(g))
        /\ WF_vars(TaskBody(g))
        /\ WF_vars(TaskScan(g))
        /\ WF_vars(TaskRemove(g))

SpecSweeping == InitTasks /\ [][NextSweeping]_vars /\ FairScheduling

\* The networked adapter on its own: keys of two models set on the server, removed
\* by pattern through a scan and a pipeline that can each fail.
RedisInputs ==
    [keys |-> {"user:1", "user:2", "order:1"}, values |-> {"a"}, prefixes |-> {"user:", ""},
     fails |-> BOOLEAN]

InitRedis ==
    /\ cfg = New([ZeroConfig EXCEPT !.Adapter = "remote"])
    /\ store = Empty
    /\ now = 1
    /\ source = [t \in Tables |-> Table(0, 1)]
    /\ call = [caller \in Callers |-> IdleDB]
    /\ calls = 0
    /\ populated = Empty
    /\ emptyRead = Empty
    /\ invalidated = {}
    /\ probe = NoRedisCall
    /\ mem = NewMemoryAdapter

NextRedis ==
    \/ RedisSet(RedisInputs)
    \/ RedisScan(RedisInputs)
    \/ RedisNext(RedisInputs)
    \/ RedisReturn(RedisInputs)

SpecRedis == InitRedis /\ [][NextRedis]_vars

\* Reads and updates of two models, with and without a resolved schema, on an
\* adapter that also holds keys outside the engine's prefix.
FallbackCalls ==
    [tables |-> Tables, known |-> BOOLEAN, queries |-> {<<"", "[]">>},
     shapes |-> {"slice"}, skips |-> {<<"unset", "user", "unset">>},
     errors |-> {"nil"}, fails |-> {FALSE},
     ops |-> {"update"}]

ForeignInputs == [keys |-> {"other:users:1", "gorm:cach"}, values |-> {"a"}]

FallbackConfigs == {[ZeroConfig EXCEPT !.Adapter = "memory", !.InvalidateOnUpdate = TRUE]}

InitFallback == InitWith(FallbackConfigs)

NextFallback ==
    \/ Query("c1", FallbackCalls)
    \/ QueryExec("c1", FallbackCalls)
    \/ AfterQuery("c1")
    \/ Mutation("c1", FallbackCalls)
    \/ Invalidate("c1")
    \/ ForeignSet(ForeignInputs)

SpecFallback == InitFallback /\ [][NextFallback]_vars

\* Reads and updates of two models by an engine with a custom key generator.
GeneratorCalls ==
    [tables |-> Tables, known |-> {TRUE}, queries |-> {<<"", "[]">>, <<" WHERE id = ?", "[1]">>},
     shapes |-> {"slice"}, skips |-> {<<"unset", "user", "unset">>},
     errors |-> {"nil"}, fails |-> {FALSE},
     ops |-> {"update"}]

GeneratorConfigs ==
    {[ZeroConfig EXCEPT !.Adapter = "memory", !.InvalidateOnUpdate = TRUE,
                        !.CacheKeyGenerator = g] : g \in {"readme", "tableFirst", "sql"}}

InitGenerator == InitWith(GeneratorConfigs)

NextGenerator ==
    \/ Query("c1", GeneratorCalls)
    \/ QueryExec("c1", GeneratorCalls)
    \/ AfterQuery("c1")
    \/ Mutation("c1", GeneratorCalls)
    \/ Invalidate("c1")

SpecGenerator == InitGenerator /\ [][NextGenerator]_vars

\* Reads and mutations of one model under every skip signal, all toggles enabled.
SkipWriteCalls ==
    [tables |-> {"users"}, known |-> {TRUE}, queries |-> {<<"", "[]">>},
     shapes |-> {"slice"}, skips |-> SkipInputs,
     errors |-> {"nil"}, fails |-> {FALSE},
     ops |-> {"create", "update", "delete"}]

SkipWriteConfigs ==
    {[ZeroConfig EXCEPT !.Adapter = "memory", !.SkipCacheCondition = p,
                        !.InvalidateOnCreate = TRUE, !.InvalidateOnUpdate = TRUE,
                        !.InvalidateOnDelete = TRUE] : p \in {"nil", "isAdmin"}}

InitSkipWrites == InitWith(SkipWriteConfigs)

NextSkipWrites ==
    \/ Query("c1", SkipWriteCalls)
    \/ QueryExec("c1", SkipWriteCalls)
    \/ AfterQuery("c1")
    \/ Mutation("c1", SkipWriteCalls)
    \/ Invalidate("c1")

SpecSkipWrites == InitSkipWrites /\ [][NextSkipWrites]_vars

\* Engines constructed from literals that set or leave out the adapter, the TTL
\* and the prefix, and closed in any order.
EngineConfigs ==
    {[ZeroConfig EXCEPT !.Adapter = a, !.TTL = ttl, !.KeyPrefix = p] :
        a \in {"nil", "memory", "remote"}, ttl \in {0, 1}, p \in {"", "app:"}}

InitEngines ==
    /\ cfg = New(ZeroConfig)
    /\ store = Empty
    /\ now = 1
    /\ source = [t \in Tables |-> Table(0, 1)]
    /\ call = [caller \in Callers |-> IdleDB]
    /\ calls = 0
    /\ populated = Empty
    /\ emptyRead = Empty
    /\ invalidated = {}
    /\ probe = NoEngines
    /\ mem = NewMemoryAdapter

NextEngines ==
    \/ EngineNew(EngineConfigs)
    \/ EngineClose

SpecEngines == InitEngines /\ [][NextEngines]_vars

\* One read handed to both plugins: a statement built by gorm:query (Find) or
\* before the callbacks (Raw), with or without a failure already in the call,
\* against a store that is empty or holds a payload under the call's key.
VariantCalls ==
    {[NewDB("query", "users", "users", "", "[]", shape, skip[1], skip[2], skip[3], err)
        EXCEPT !.Built = built] :
        shape \in {"struct", "slice"}, err \in {"nil", "prior"}, built \in BOOLEAN,
        skip \in {<<"unset", "user", "unset">>, <<"true", "user", "unset">>}}

VariantPayloads == {"[2]", "{2}"}

VariantStores(c, db) ==
    {Empty} \cup {Set(Empty, 1, generateCacheKey(c, db), p, c.TTL) : p \in VariantPayloads}

NoVariant == [db |-> IdleDB, store |-> Empty]

InitVariants ==
    /\ cfg = New(ZeroConfig)
    /\ now = 1
    /\ source \in {[t \in Tables |-> Table(n, 1)] : n \in {0, 1}}
    /\ call = [caller \in Callers |-> IdleDB]
    /\ calls = 0
    /\ populated = Empty
    /\ emptyRead = Empty
    /\ invalidated = {}
    /\ mem = NewMemoryAdapter
    /\ \E db \in VariantCalls, fail \in BOOLEAN :
        /\ probe = [fn |-> "variants", db |-> db, fail |-> fail, applied |-> FALSE,
                    sentinel |-> NoVariant,
                    flag |-> [db |-> IdleDB, store |-> Empty, before |-> IdleDB]]
        /\ store \in VariantStores(New(ZeroConfig), db)

NextVariants == ApplyVariants

SpecVariants == InitVariants /\ [][NextVariants]_vars

----------------------------------------------------------------------------
(* Properties of the read path *)

Reads == {caller \in Callers : call[caller].op = "query"}

Writes == {caller \in Callers : call[caller].op \in {"create", "update", "delete"}}

PastQuery(db) == db.pc \in {"after", "done"}

\* The read found the key absent, expired or unreadable and left it to the query.
Missed(db) == db.CacheKey # NoKey

\* The read was answered from the adapter's entry.
Hit(db) == db.derived # NoKey /\ db.CacheKey = NoKey /\ ~db.executed /\ PastQuery(db)

\* C1 as stated: once a read has populated key k, and while that entry is neither
\* invalidated, deleted nor expired, every later read that derives k leaves the
\* query out and delivers the stored result.
C1_EveryLaterReadServedFromCache ==
    \A caller \in Reads :
        LET db == call[caller]
        IN  (db.afterPopulated /\ PastQuery(db)) =>
                /\ ~db.executed
                /\ db.pc = "done" => (db.Dest = db.expect /\ db.Error = "nil")

\* C1, amended: the same for every later read whose destination has the shape
\* (single item or collection) of the stored result.
C1_SameShapeReadServedFromCache ==
    \A caller \in Reads :
        LET db == call[caller]
        IN  (db.afterPopulated /\ db.Dest.kind = db.expect.kind /\ PastQuery(db)) =>
                /\ ~db.executed
                /\ db.pc = "done" => (db.Dest = db.expect /\ db.Error = "nil")

C1_Witness ==
    \E caller \in Reads :
        LET db == call[caller]
        IN  /\ db.pc = "done" /\ db.afterPopulated /\ db.Dest.kind = db.expect.kind
            /\ ~db.executed /\ db.Dest = db.expect /\ db.Dest.items # <<>>
            \* the table has changed since: the result is the stored one
            /\ db.Dest # SourceDest(source, db)

\* C2: a read whose query returned no rows writes nothing to the adapter, and the
\* same read issued after an insert that followed it runs the query and receives
\* what the table then holds.
C2_EmptyResultNeverCached ==
    \A caller \in Reads :
        LET db == call[caller]
        IN  /\ (db.pc = "done" /\ db.executed /\ db.RowsAffected = 0) =>
                    db.sets = 0
            /\ (db.afterEmpty /\ PastQuery(db)) =>
                    /\ db.executed
                    /\ db.Error = "nil" => (db.Dest = db.ref.Dest /\ db.RowsAffected = db.ref.RowsAffected)

C2_Witness ==
    \E caller \in Reads :
        LET db == call[caller]
        IN  /\ ~cfg.InvalidateOnCreate
            /\ db.pc = "done" /\ db.afterEmpty /\ db.executed
            /\ db.RowsAffected > 0 /\ db.Dest = SourceDest(source, db)

\* C3: with InvalidateOnUpdate, the read of model M that follows an update of M
\* (itself following a cached read of M) misses and runs the query, and the update
\* removes no entry cached for another model.
C3_UpdateInvalidatesOnlyItsModel ==
    /\ \A caller \in Reads :
        LET db == call[caller]
        IN  (db.afterInvalidated /\ PastQuery(db)) => (Missed(db) /\ db.executed)
    /\ \A caller \in Writes :
        LET db == call[caller]
        IN  (db.op = "update" /\ db.pc = "done" /\ db.Schema # NoSchema) => db.collateral = {}

C3_Witness ==
    \E caller \in Reads :
        LET db == call[caller]
        IN  /\ cfg.InvalidateOnUpdate
            /\ db.pc = "done" /\ db.afterInvalidated /\ db.executed
            /\ \E k \in DOMAIN populated :
                /\ populated[k].schema # db.Schema
                /\ Get(store, now, k).err = ""

\* C4: a read that enters with a failure causes no adapter operation, remembers
\* no key, and keeps that same failure through both hooks.
C4_PriorFailureUntouched ==
    \A caller \in Reads :
        LET db == call[caller]
        IN  db.entryError # "nil" =>
                /\ db.gets = 0 /\ db.sets = 0
                /\ db.derived = NoKey /\ db.CacheKey = NoKey
                /\ db.Error = db.entryError

C4_Witness ==
    \E caller \in Reads :
        LET db == call[caller]
        IN  /\ db.pc = "done" /\ db.entryError = "prior" /\ db.Error = "prior"
            \* an entry the read would otherwise have been answered from
            /\ Get(store, now, generateCacheKey(cfg, db)).err = ""
            /\ UnmarshalOk(Get(store, now, generateCacheKey(cfg, db)).value, db.Dest)

Outcome(db) == [Error |-> db.Error, Dest |-> db.Dest, RowsAffected |-> db.RowsAffected]

\* C5 as stated: whatever the adapter and the serializer do, the caller receives
\* the failure and the result of the same read run with no cache installed.
C5_OutcomeOfUncachedRead ==
    \A caller \in Reads :
        LET db == call[caller]
        IN  db.pc = "done" => Outcome(db) = db.ref

\* C5, amended: whatever the adapter and the serializer do, a read that succeeds
\* with no cache installed succeeds with it, and a read that is not answered from
\* a cached entry receives the failure and the result of the uncached read.
C5_CacheFailuresAbsorbed ==
    \A caller \in Reads :
        LET db == call[caller]
        IN  db.pc = "done" =>
                /\ db.ref.Error = "nil" => db.Error = "nil"
                /\ ~Hit(db) => Outcome(db) = db.ref

C5_Witness ==
    \E caller \in Reads :
        LET db == call[caller]
        IN  /\ db.pc = "done" /\ {"get", "set"} \subseteq db.faults
            /\ db.Error = "nil" /\ db.RowsAffected > 0 /\ Outcome(db) = db.ref

\* C6: the cache-hit marker is in a call's Error only between the read's before
\* and after hooks; once the after hook has run the Error is nil or an upstream
\* failure.
C6_MarkerNeverLeaves ==
    \A caller \in Callers :
        LET db == call[caller]
        IN  /\ db.Error = "cachehit" => (db.op = "query" /\ db.pc \in {"query", "after"})
            /\ db.pc = "done" => db.Error \in {"nil", "prior", "query"}

C6_Witness ==
    \E caller \in Reads :
        LET db == call[caller]
        IN  db.pc = "done" /\ Hit(db) /\ db.Error = "nil" /\ db.RowsAffected > 0

SkipSignal(c, db) ==
    \/ db.Context = "true"
    \/ c.SkipCacheCondition = "isAdmin" /\ db.Role = "admin"
    \/ db.SkipSetting = "true"

\* C9: a read for which a skip signal holds (context value true, predicate true or
\* the statement's skip setting) causes neither Get nor Set and is never marked as
\* a hit, so its query runs; and no step of that read changes the adapter's
\* contents, whether or not its key is cached.
C9_SkippedReadBypassesCache ==
    /\ [](\A caller \in Reads :
            LET db == call[caller]
            IN  SkipSignal(cfg, db) =>
                    /\ db.gets = 0 /\ db.sets = 0 /\ db.derived = NoKey
                    /\ db.Error # "cachehit"
                    /\ (db.entryError = "nil" /\ PastQuery(db)) => db.executed)
    /\ [][\A caller \in Callers :
            (/\ call'[caller] # call[caller]
             /\ call'[caller].op = "query"
             /\ SkipSignal(cfg, call'[caller])) => store' = store]_vars

C9_Witness ==
    \E caller \in Reads :
        LET db == call[caller]
        IN  /\ db.pc = "done" /\ db.SkipSetting = "true" /\ db.Context = "unset"
            /\ db.executed /\ db.gets = 0 /\ db.sets = 0 /\ db.RowsAffected > 0
            /\ Get(store, now, generateCacheKey(cfg, db)).err = ""

SkipProbe == probe.fn = "shouldSkipCache" /\ probe.applied

\* C7: in shouldSkipCache the context comes first: with the context value true the
\* answer is skip and the predicate is not called, whatever it would return; with
\* no context value and the predicate returning true the answer is skip.
C7_ContextFirstThenPredicate ==
    SkipProbe =>
        /\ probe.db.Context = "true" => (probe.out /\ ~probe.called)
        /\ (/\ probe.db.Context \in {"nil", "unset"}
            /\ cfg.SkipCacheCondition = "isAdmin" /\ probe.db.Role = "admin") => probe.out

C7_Witness ==
    /\ SkipProbe /\ probe.db.Context = "true" /\ cfg.SkipCacheCondition = "isAdmin"
    /\ probe.db.Role = "user" /\ probe.db.SkipSetting = "false"
    /\ probe.out /\ ~probe.called

\* C8 as stated: with the context value false, shouldSkipCache answers do not skip,
\* whatever the predicate returns and whatever the statement's skip setting is.
C8_ExplicitFalseEndsEvaluation ==
    (SkipProbe /\ probe.db.Context = "false") => ~probe.out

\* C10: shouldCacheModel answers true for every call when CacheModels is empty;
\* otherwise it answers true exactly when the call has a model identity and that
\* identity equals the type name of one of the entries, so never without identity.
C10_AllowListDecides ==
    (probe.fn = "shouldCacheModel" /\ probe.applied) =>
        /\ cfg.CacheModels = {} => probe.out
        /\ cfg.CacheModels # {} =>
                (probe.out <=>
                    /\ probe.db.Schema # NoSchema
                    /\ \/ probe.db.Schema = "users" /\ "User{}" \in cfg.CacheModels
                       \/ probe.db.Schema = "orders" /\ "Order{}" \in cfg.CacheModels)

C10_Witness ==
    /\ probe.fn = "shouldCacheModel" /\ probe.applied
    /\ cfg.CacheModels = {"User{}", "&User{}"}
    /\ probe.db.Schema = NoSchema /\ ~probe.out

\* The allow-list is not empty and does not name the call's model.
NotListed(c, db) ==
    /\ db.op \in {"query", "create", "update", "delete"}
    /\ c.CacheModels # {}
    /\ ~ \/ db.Schema = "users" /\ "User{}" \in c.CacheModels
         \/ db.Schema = "orders" /\ "Order{}" \in c.CacheModels

\* C11: under a non-empty allow-list, a read or a mutation of a model the list does
\* not name causes no Get, no Set and no DeletePattern; such a read runs its query,
\* and no step of such a call changes the adapter's contents.
C11_UnlistedModelUntouched ==
    /\ [](\A caller \in Callers :
            LET db == call[caller]
            IN  NotListed(cfg, db) =>
                    /\ db.gets = 0 /\ db.sets = 0 /\ db.dels = 0
                    /\ db.Error # "cachehit"
                    /\ (db.op = "query" /\ PastQuery(db)) => db.executed)
    /\ [][\A caller \in Callers :
            (call'[caller] # call[caller] /\ NotListed(cfg, call'[caller]))
                => store' = store]_vars

C11_Witness ==
    \E caller \in Writes :
        LET db == call[caller]
        IN  /\ db.pc = "done" /\ db.op = "update" /\ db.Schema = "orders"
            /\ db.Error = "nil" /\ db.RowsAffected = 1
            /\ NotListed(cfg, db) /\ Registered(cfg, db.op)
            /\ \E k \in DOMAIN store : Get(store, now, k).err = ""

\* C12 as stated: a plugin built by New from a Config literal that sets none of the
\* three toggles has, after each successful create, update and delete, no entry of
\* the model left in the adapter.
C12_UnsetTogglesInvalidate ==
    \A caller \in Writes :
        LET db == call[caller]
        IN  (/\ cfg = New([ZeroConfig EXCEPT !.Adapter = "memory", !.TTL = 1])
             /\ db.pc = "done" /\ db.Error = "nil") =>
                KeysOf(cfg, db.Table, DOMAIN store) = {}

\* The operation's own toggle is off.
OwnToggleOff(c, op) ==
    \/ op = "create" /\ ~c.InvalidateOnCreate
    \/ op = "update" /\ ~c.InvalidateOnUpdate
    \/ op = "delete" /\ ~c.InvalidateOnDelete

\* C13: a create, update or delete whose own toggle is off never reaches the
\* invalidation callback, causes no DeletePattern, and none of its steps changes
\* the adapter's contents, whatever the other two toggles are.
C13_TogglesIndependent ==
    /\ [](\A caller \in Writes :
            LET db == call[caller]
            IN  OwnToggleOff(cfg, db.op) => (db.dels = 0 /\ db.pc # "mutated"))
    /\ [][\A caller \in Callers :
            (call'[caller] # call[caller] /\ OwnToggleOff(cfg, call'[caller].op))
                => store' = store]_vars

C13_Witness ==
    \E caller \in Writes :
        LET db == call[caller]
        IN  /\ db.pc = "done" /\ db.op = "update" /\ db.Error = "nil"
            /\ ~cfg.InvalidateOnUpdate /\ cfg.InvalidateOnCreate /\ cfg.InvalidateOnDelete
            /\ \E k \in KeysOf(cfg, db.Table, DOMAIN store) : Get(store, now, k).err = ""

\* C14: a mutation that carries a failure causes no DeletePattern and none of its
\* steps changes the adapter's contents; and the invalidation callback, whether its
\* DeletePattern fails or not, leaves the mutation's Error and row count as they
\* were, so a mutation whose DeletePattern failed ends with no failure.
C14_InvalidationBestEffort ==
    /\ [](\A caller \in Writes :
            LET db == call[caller]
            IN  /\ db.Error # "nil" => db.dels = 0
                /\ "del" \in db.faults => (db.Error = "nil" /\ db.RowsAffected = 1))
    /\ [][\A caller \in Callers :
            LET old == call[caller]
                new == call'[caller]
            IN  /\ (new # old /\ new.op \in {"create", "update", "delete"}
                        /\ new.Error # "nil") => store' = store
                /\ (old.pc = "mutated" /\ new.pc = "done") =>
                        (new.Error = old.Error /\ new.RowsAffected = old.RowsAffected)]_vars

C14_Witness ==
    \E caller \in Writes :
        LET db == call[caller]
        IN  /\ db.pc = "done" /\ "del" \in db.faults /\ db.dels = 1
            /\ db.Error = "nil" /\ db.RowsAffected = 1
            /\ \E k \in KeysOf(cfg, db.Table, DOMAIN store) : Get(store, now, k).err = ""

----------------------------------------------------------------------------
(* Properties of the in-memory adapter *)

\* The last call was Get of a key whose last Set nothing has removed or replaced.
GetAfterSet == probe.fn = "Get" /\ probe.last # NoSet

Found(value) == [err |-> "", value |-> value]

\* C15: Get of a key at a time strictly before the ttl > 0 of its last Set has
\* elapsed, with no Delete, DeletePattern or Clear of the key in between, returns
\* the value of that Set and no error.
C15_SetGetRoundTrip ==
    (GetAfterSet /\ probe.last.ttl > 0 /\ probe.at < probe.last.at + probe.last.ttl)
        => probe.out = Found(probe.last.value)

C15_Witness ==
    /\ GetAfterSet /\ probe.last.ttl = 2 /\ probe.at = probe.last.at + 1
    /\ probe.out = Found("b")

\* C16 as stated: Get of a key at or after the expiry of its last Set (the time of
\* the Set plus its ttl > 0), the exact instant included, returns an error, swept
\* or not.
C16_ExpiredFromTheInstant ==
    (GetAfterSet /\ probe.last.ttl > 0 /\ probe.at >= probe.last.at + probe.last.ttl)
        => probe.out.err # ""

\* C16, amended: Get of a key strictly after the expiry of its last Set returns an
\* error, swept or not; at the exact instant of the expiry it still returns the
\* value.
C16_ExpiredAfterTheInstant ==
    /\ (GetAfterSet /\ probe.last.ttl > 0 /\ probe.at > probe.last.at + probe.last.ttl)
            => probe.out.err # ""
    /\ (GetAfterSet /\ probe.last.ttl > 0 /\ probe.at = probe.last.at + probe.last.ttl)
            => probe.out = Found(probe.last.value)

\* Past its expiry and not yet swept.
C16_Witness ==
    /\ GetAfterSet /\ probe.last.ttl > 0 /\ probe.at > probe.last.at + probe.last.ttl
    /\ probe.before # NoItem /\ probe.out.err = "key expired"

\* C17: an entry whose last Set had ttl <= 0 is, until a Delete, DeletePattern,
\* Clear or another Set of its key, in the store and returned by Get at every
\* time, sweeps or not.
C17_NoTTLNeverExpires ==
    /\ \A k \in DOMAIN populated :
            populated[k].ttl <= 0 => Get(store, now, k) = Found(populated[k].value)
    /\ (GetAfterSet /\ probe.last.ttl <= 0) => probe.out = Found(probe.last.value)

\* Two minutes on, after a sweep that removed another key.
C17_Witness ==
    /\ GetAfterSet /\ probe.last.ttl = 0 /\ probe.at >= probe.last.at + 2
    /\ probe.out = Found(probe.last.value)
    /\ \E k \in DOMAIN populated : k \notin DOMAIN store

\* C18: after a Set of a key that already had an entry, the stored item is the
\* second Set's value with the expiry of the second Set alone (none for ttl <= 0),
\* and Get returns that value while that expiry has not passed, also when the
\* earlier entry had expired.
C18_SetOverwrites ==
    /\ \A k \in DOMAIN populated \cap DOMAIN store :
            store[k] = CacheItem(populated[k].value,
                                 IF populated[k].ttl > 0
                                 THEN populated[k].at + populated[k].ttl ELSE 0)
    /\ (/\ GetAfterSet /\ probe.last.over
        /\ (probe.last.ttl <= 0 \/ probe.at < probe.last.at + probe.last.ttl))
            => probe.out = Found(probe.last.value)

C18_Witness ==
    /\ GetAfterSet /\ probe.last.over /\ probe.last.revived
    /\ probe.last.ttl <= 0 /\ probe.before.expiration = 0
    /\ probe.out = Found(probe.last.value)

\* C19: Delete of a key returns no error whether the key is there or not; after it
\* Get of the key finds nothing, a second Delete changes nothing, and every other
\* key has the item it had.
C19_DeleteIdempotentAndPrecise ==
    probe.fn = "Delete" =>
        /\ probe.out.err = ""
        /\ Get(probe.after, probe.at, probe.key).err = "key not found"
        /\ Delete(probe.after, probe.key) = probe.after
        /\ DOMAIN probe.after = DOMAIN probe.before \ {probe.key}
        /\ \A k \in DOMAIN probe.after : probe.after[k] = probe.before[k]

C19_Witness ==
    /\ probe.fn = "Delete" /\ probe.key \in DOMAIN probe.before
    /\ Cardinality(DOMAIN probe.before) >= 3
    /\ Cardinality(DOMAIN probe.after) = Cardinality(DOMAIN probe.before) - 1

\* C20: DeletePattern of a literal prefix followed by "*" removes exactly the keys
\* that start with the prefix, characters such as "*" in the prefix standing for
\* themselves; every other key keeps its item and is returned by Get as before;
\* the pattern "*" removes every key.
C20_DeletePatternByLiteralPrefix ==
    probe.fn = "DeletePattern" =>
        /\ DOMAIN probe.after =
                {k \in DOMAIN probe.before :
                    ~(Len(k) >= Len(probe.key) /\ SubSeq(k, 1, Len(probe.key)) = probe.key)}
        /\ \A k \in DOMAIN probe.after :
                /\ probe.after[k] = probe.before[k]
                /\ Get(probe.after, probe.at, k) = Get(probe.before, probe.at, k)
        /\ probe.key = "" => probe.after = Empty

\* "u**" removes "u*:1" and leaves the keys that begin with "user:".
C20_Witness ==
    /\ probe.fn = "DeletePattern" /\ probe.key = "u*"
    /\ {"user:1", "u*:1", "order:1"} \subseteq DOMAIN probe.before
    /\ DOMAIN probe.after = {"user:1", "order:1"}

\* C21: Clear leaves no entry, whatever the keys' prefixes and expirations were:
\* Get of every key then finds nothing, and Get of a key that has had no Set since
\* it was last removed returns an error.
C21_ClearRemovesEverything ==
    /\ probe.fn = "Clear" =>
            /\ probe.after = Empty
            /\ \A k \in DOMAIN probe.before :
                    Get(probe.after, probe.at, k).err = "key not found"
    /\ (probe.fn = "Get" /\ probe.last = NoSet) => probe.out.err = "key not found"

\* Cleared: keys of two prefixes, one expiring, one not.
C21_Witness ==
    /\ probe.fn = "Clear"
    /\ DOMAIN probe.before = {"user:1", "order:1"}
    /\ \E k \in DOMAIN probe.before : probe.before[k].expiration = 0
    /\ \E k \in DOMAIN probe.before : probe.before[k].expiration > 0

\* C28: a sweep removes exactly the entries whose expiration is set and strictly
\* before the clock, leaves every other entry as it was, and changes for no key
\* whether Get finds it or the value Get returns.
C28_SweepRemovesOnlyExpired ==
    [][(store' # store /\ probe' = probe) =>
            /\ DOMAIN store' =
                    {k \in DOMAIN store :
                        ~(store[k].expiration # 0 /\ store[k].expiration < now)}
            /\ \A k \in DOMAIN store' : store'[k] = store[k]
            /\ \A k \in DOMAIN store :
                    /\ Get(store', now, k).value = Get(store, now, k).value
                    /\ (Get(store', now, k).err = "") <=> (Get(store, now, k).err = "")]_vars

\* Swept: an expired entry is gone, an entry at the instant of its expiration and
\* an entry without expiration are still there.
C28_Witness ==
    /\ \E k \in DOMAIN populated : k \notin DOMAIN store
    /\ \E k \in DOMAIN store : store[k].expiration = now

----------------------------------------------------------------------------
(* Properties of the key derivation and of the row count of a hit *)

\* The table name a key carries.
KeyTable(db) == IF db.Schema = NoSchema THEN "unknown" ELSE db.Schema

\* C24 as stated: two reads with the same table, query text and bound parameters
\* derive the same key, two reads that differ in any of the three derive different
\* keys, and each key begins with the prefix, the table name ("unknown" without a
\* model identity) and ":".
C24_KeyDeterminedByTableTextAndVars ==
    (probe.fn = "generateCacheKey" /\ probe.applied) =>
        LET a == probe.a
            b == probe.b
            same == KeyTable(a) = KeyTable(b) /\ a.SQL = b.SQL /\ a.Vars = b.Vars
        IN  /\ same => probe.out[1] = probe.out[2]
            /\ ~same => probe.out[1] # probe.out[2]
            /\ HasPrefix(probe.out[1], cfg.KeyPrefix \o KeyTable(a) \o ":")
            /\ HasPrefix(probe.out[2], cfg.KeyPrefix \o KeyTable(b) \o ":")

\* C25: a read answered from the cache ends with no failure and with the row count
\* of what was decoded: 1 for a struct, the number of elements for a slice, 0 for
\* any other destination.
C25_RowCountOfHit ==
    \A caller \in Reads :
        LET db == call[caller]
        IN  (Hit(db) /\ db.pc = "done") =>
                /\ db.Error = "nil"
                /\ db.Dest.kind = "struct" => db.RowsAffected = 1
                /\ db.Dest.kind = "slice" => db.RowsAffected = Len(db.Dest.items)
                /\ db.Dest.kind \notin {"struct", "slice"} => db.RowsAffected = 0

C25_Witness ==
    \E caller \in Reads :
        LET db == call[caller]
        IN  /\ Hit(db) /\ db.pc = "done" /\ db.Dest.kind = "slice"
            /\ Len(db.Dest.items) = 2 /\ db.RowsAffected = 2


\* The writer's last create committed and its DeletePattern has completed.
InvalidationCompleted(db) ==
    /\ db.op = "create" /\ db.pc = "done"
    /\ db.Error = "nil" /\ db.executed /\ db.dels > 0

\* The step starts a read of the caller.
ReadStarts(caller) ==
    call[caller].pc \in {"idle", "done"} /\ call'[caller].pc = "query"

\* C26: a read of a model that starts after the DeletePattern of a committed
\* mutation of that model has completed is not answered from the cache with a result
\* read from the source before that mutation. Only c2 mutates and only by creating
\* rows, so a result read before its last create has fewer rows than the table has.
C26_NoStaleHitAfterInvalidation ==
    [][(/\ ReadStarts("c1")
        /\ InvalidationCompleted(call["c2"])
        /\ call["c2"].Table = call'["c1"].Table
        /\ call'["c1"].derived # NoKey /\ call'["c1"].CacheKey = NoKey
        /\ call'["c1"].Error = "cachehit")
       => Len(call'["c1"].Dest.items) = source[call'["c1"].Table].n]_vars


----------------------------------------------------------------------------
(* Properties of the in-memory adapter under concurrent goroutines *)

Tasks == Goroutines \cup {Sweeper}

\* The accesses to the adapter's fields that a task is about to make or is making.
Accesses(g) ==
    LET t == mem.task[g]
    IN  CASE t.pc = "read" -> {[field |-> "store", write |-> FALSE]}
          [] t.pc \in {"body", "scan", "remove"} -> {[field |-> "store", write |-> TRUE]}
          [] t.pc = "close" -> {[field |-> "cleanUp", write |-> TRUE]}
          [] t.pc = "select" -> {[field |-> "cleanUp", write |-> FALSE]}
          [] OTHER -> {}

Conflict(a, b) == a.field = b.field /\ (a.write \/ b.write)

\* C22: no call of Close panics, however many calls of Close came before it.
C22_CloseNeverPanics == ~mem.panicked

\* C23: no two tasks are at accesses to the same field of the adapter of which one
\* is a write: writers of the store exclude each other and the readers, and the
\* cleanUp flag is never written while another task can read or write it.
C23_NoConflictingAccesses ==
    \A g \in Tasks, h \in Tasks :
        g # h => \A a \in Accesses(g), b \in Accesses(h) : ~Conflict(a, b)

\* A DeletePattern of the goroutine is between its Lock and its Unlock.
Deleting(g) == mem.task[g].fn = "DeletePattern" /\ mem.task[g].pc \in {"scan", "remove"}

\* C27: while a DeletePattern is between its first and its last removal no other
\* task reads or writes the store, the matching keys still in the store are exactly
\* the ones it has yet to remove, and no key it removed is back.
C27_DeletePatternAtomic ==
    \A g \in Goroutines :
        Deleting(g) =>
            LET t == mem.task[g]
            IN  /\ \A h \in Tasks \ {g} : mem.task[h].pc \notin {"read", "body", "scan", "remove"}
                /\ mem.writer = g /\ mem.readers = {}
                /\ t.pc = "remove" =>
                    /\ {k \in DOMAIN store : PatternMatches(k, t.key)} = t.keys
                    /\ t.removed \cap DOMAIN store = {}
                    /\ t.removed \cap t.keys = {}

C27_Witness ==
    \E g \in Goroutines, h \in Goroutines :
        /\ g # h /\ Deleting(g)
        /\ mem.task[g].removed # {} /\ mem.task[g].keys # {}
        /\ mem.task[h].fn = "Get" /\ mem.task[h].pc = "rlock"
        /\ mem.task[h].key \in mem.task[g].removed

\* C30: once a call of Close has returned the sweeper sweeps the store no more.
C30_NoSweepAfterCloseReturns == ~mem.lateSweep


\* C29: while Close has not been called, an entry that is in the store and expired
\* is eventually removed from the store (or overwritten with one that is not expired).
C29_ExpiredEventuallySwept ==
    \A k \in SweepInputs.keys :
        (k \in DOMAIN store /\ Expired(store[k], now) /\ mem.cleanUp)
            ~> (k \notin DOMAIN store \/ ~Expired(store[k], now) \/ ~mem.cleanUp)

C29_Witness ==
    /\ mem.cleanUp /\ mem.stopCh = "open"
    /\ mem.task[Sweeper].pc = "select" /\ mem.task[Sweeper].out.value = "swept"
    /\ store = Empty


----------------------------------------------------------------------------
(* Properties of the networked adapter and of reads that fail to decode *)

\* C31: when the scan of a networked DeletePattern fails, the call returns the
\* error of the scan and every key queued before the failure is deleted.
C31_QueuedDeletionsFlushedOnScanError ==
    (probe.fn = "RedisDeletePattern" /\ probe.pc = "done" /\ probe.iterErr # "") =>
        /\ probe.out = probe.iterErr
        /\ probe.pipe \cap DOMAIN store = {}


\* C32: a read whose payload from the adapter could not be decoded carries no
\* cache-hit marker, runs the query, and ends with the failure and the result of
\* the same read run with no cache installed.
C32_DecodeFailureIsAMiss ==
    \A caller \in Reads :
        LET db == call[caller]
        IN  db.undecoded =>
                /\ db.Error # "cachehit"
                /\ db.pc = "query" => db.Error = "nil"
                /\ PastQuery(db) => db.executed
                /\ db.pc = "done" => Outcome(db) = db.ref

C32_Witness ==
    \E caller \in Reads :
        LET db == call[caller]
        IN  /\ db.pc = "done" /\ db.undecoded /\ db.executed
            /\ db.Error = "nil" /\ db.RowsAffected > 0 /\ db.Dest = SourceDest(source, db)
            /\ Get(store, now, db.derived).err = ""

\* The step starts a read of the caller whose key is the one its previous read
\* could not decode, the entry being still readable.
SameKeyAfterDecodeFailure(caller) ==
    LET old == call[caller]
        new == call'[caller]
    IN  /\ old.op = "query" /\ old.pc = "done" /\ old.undecoded
        /\ new.op = "query" /\ new.pc = "query" /\ new.derived = old.derived
        /\ Get(store, now, old.derived).err = ""

C34_HitNeverWrites ==
    /\ [](\A caller \in Reads : Hit(call[caller]) => call[caller].sets = 0)
    /\ [][/\ \A caller \in Callers :
                (/\ call'[caller] # call[caller]
                 /\ "cachehit" \in {call[caller].Error, call'[caller].Error}) => store' = store
          /\ \A k \in DOMAIN store' :
                (k \notin DOMAIN store \/ store'[k] # store[k]) =>
                    /\ \E caller \in Callers :
                        /\ call[caller].pc = "after" /\ call'[caller].pc = "done"
                        /\ call[caller].executed /\ call[caller].CacheKey = k
                    /\ store'[k].expiration = now + cfg.TTL]_vars

\* An entry that answered two reads has expired, one TTL after it was stored.
C34_Witness ==
    \E caller \in Reads :
        LET db == call[caller]
        IN  /\ Hit(db) /\ db.pc = "done" /\ calls >= 3
            /\ source = [t \in Tables |-> Table(1, 1)]
            /\ db.derived \in DOMAIN store
            /\ Expired(store[db.derived], now)
            /\ store[db.derived].expiration = 1 + cfg.TTL


\* C35: a key is remembered only by a before hook whose Get of the derived key
\* missed or failed, and an after hook that calls Set belongs to a call that
\* remembered its derived key after one Get, and changes no other key.
C35_SetFollowsMissOfSameKey ==
    /\ [](\A caller \in Reads :
            LET db == call[caller]
            IN  db.sets > 0 =>
                    /\ db.pc = "done" /\ db.gets = 1 /\ db.sets = 1
                    /\ db.CacheKey # NoKey /\ db.CacheKey = db.derived)
    /\ [][\A caller \in Callers :
            LET old == call[caller]
                new == call'[caller]
            IN  /\ (old.pc \in {"idle", "done"} /\ new.pc = "query" /\ new.CacheKey # NoKey) =>
                    /\ new.CacheKey = generateCacheKey(cfg, new)
                    /\ new.derived = new.CacheKey /\ new.gets = 1 /\ new.sets = 0
                    /\ Get(store, now, new.CacheKey).err # "" \/ "get" \in new.faults
                /\ (old.pc = "after" /\ new.pc = "done" /\ new.sets = old.sets + 1) =>
                    /\ old.CacheKey # NoKey /\ old.CacheKey = old.derived /\ old.gets = 1
                    /\ \A k \in (DOMAIN store \cup DOMAIN store') \ {old.CacheKey} :
                        k \in DOMAIN store /\ k \in DOMAIN store' /\ store'[k] = store[k]
                    /\ "set" \notin new.faults =>
                        /\ old.CacheKey \in DOMAIN store'
                        /\ store'[old.CacheKey].value = Marshal(old.Dest)]_vars

\* A read whose Get failed in the adapter has stored its result under its key.
C35_Witness ==
    \E caller \in Reads :
        LET db == call[caller]
        IN  /\ db.pc = "done" /\ db.sets = 1 /\ db.faults = {"get"}
            /\ db.derived \in DOMAIN store
            /\ store[db.derived].value = Marshal(db.Dest)


----------------------------------------------------------------------------
(* Properties of the invalidation pattern and of the engine's adapter *)

\* C36: the invalidation of a successful mutation removes exactly the keys that
\* start with prefix + table + ":" when the mutation's schema is resolved and
\* exactly the keys that start with the prefix when it is not, and leaves every
\* other key as it was.
C36_PatternCoversModelOrPrefix ==
    [][\A caller \in Callers :
        LET old == call[caller]
            removed == DOMAIN store \ DOMAIN store'
        IN  (old.pc = "mutated" /\ call'[caller].pc = "done" /\ old.Error = "nil") =>
                /\ old.Schema # NoSchema =>
                    removed = {k \in DOMAIN store : HasPrefix(k, cfg.KeyPrefix \o old.Schema \o ":")}
                /\ old.Schema = NoSchema =>
                    removed = {k \in DOMAIN store : HasPrefix(k, cfg.KeyPrefix)}
                /\ \A k \in removed : HasPrefix(k, cfg.KeyPrefix)
                /\ \A k \in DOMAIN store \ removed : k \in DOMAIN store' /\ store'[k] = store[k]
                /\ DOMAIN store' \subseteq DOMAIN store]_vars

\* An update with no resolved schema has removed the entries of both models and
\* left the keys outside the prefix.
C36_Witness ==
    \E caller \in Writes :
        LET db == call[caller]
        IN  /\ db.pc = "done" /\ db.Schema = NoSchema /\ db.dels = 1 /\ db.Error = "nil"
            /\ \E k \in db.collateral : HasPrefix(k, cfg.KeyPrefix \o "users:")
            /\ \E k \in db.collateral : HasPrefix(k, cfg.KeyPrefix \o "orders:")
            /\ DOMAIN store = ForeignInputs.keys


\* C37: with a custom key generator the key of a read is the prefix followed by
\* the generator's text, and once the invalidation of a successful mutation of a
\* model has run no entry stored by a read of that model is left in the adapter.
C37_CustomKeysInvalidated ==
    /\ [](\A caller \in Reads :
            LET db == call[caller]
            IN  db.derived # NoKey => db.derived = cfg.KeyPrefix \o CacheKeyGenerator(cfg, db))
    /\ [][\A caller \in Callers :
            LET old == call[caller]
            IN  (old.pc = "mutated" /\ call'[caller].pc = "done" /\ old.Error = "nil") =>
                    \A k \in DOMAIN populated :
                        populated[k].schema = old.Schema => k \notin DOMAIN store']_vars


\* C38: a successful create, update or delete with its toggle enabled calls
\* DeletePattern once whatever skip signal it carries, and its invalidation leaves
\* no key of its model in the adapter.
C38_InvalidationIgnoresSkip ==
    /\ [](\A caller \in Writes :
            LET db == call[caller]
            IN  (db.pc = "done" /\ db.Error = "nil" /\ Registered(cfg, db.op)) => db.dels = 1)
    /\ [][\A caller \in Callers :
            LET old == call[caller]
            IN  (old.pc = "mutated" /\ call'[caller].pc = "done" /\ old.Error = "nil") =>
                    KeysOf(cfg, old.Schema, DOMAIN store') = {}]_vars

\* An update that carried a skip signal has removed the cached entries of its model.
C38_Witness ==
    \E caller \in Writes :
        LET db == call[caller]
        IN  /\ db.pc = "done" /\ db.op = "update" /\ db.Error = "nil"
            /\ shouldSkipCache(cfg, db)
            /\ db.dels = 1 /\ db.Schema \in invalidated
            /\ store = Empty


\* C39: the number of running sweepers equals the number of in-memory adapters
\* that engines hold and have not closed.
C39_SweepersMatchAdapters ==
    probe.fn = "engines" =>
        probe.sweepers =
            Cardinality({i \in DOMAIN probe.engines :
                            probe.engines[i].adapter = "memory" /\ probe.engines[i].open})

----------------------------------------------------------------------------
(* Properties of the two historical plugins *)

\* Both plugins made the same calls of the adapter and left the same store.
SameAdapterOperations ==
    /\ probe.sentinel.db.gets = probe.flag.db.gets
    /\ probe.sentinel.db.sets = probe.flag.db.sets
    /\ probe.sentinel.store = probe.flag.store

\* The call carries no failure on entry and its query returns rows.
PlainNonEmptyCall ==
    /\ probe.db.entryError = "nil"
    /\ NoCacheOutcome(source, probe.db, probe.fail).Error = "nil"
    /\ NoCacheOutcome(source, probe.db, probe.fail).RowsAffected > 0

\* C40 as stated: on every call without a prior failure and with a non-empty
\* result the flag-based plugin and the sentinel plugin perform the same adapter
\* operations.
C40_VariantsAgreeOnPlainCalls ==
    (probe.fn = "variants" /\ probe.applied /\ PlainNonEmptyCall) => SameAdapterOperations

\* C40, amended: the two plugins perform the same adapter operations on a call
\* without a prior failure and with a non-empty result whose SQL is built before
\* the callbacks run; on a statement that gorm:query is yet to build the
\* flag-based plugin performs no adapter operation at all; and on a call that
\* carries a prior failure the sentinel plugin takes no action (no Get, no Set,
\* destination untouched) while the flag-based plugin still Gets whenever the
\* statement is built, not skipped and of a cached model, and overwrites the
\* destination when that Get is a decodable hit.
C40_VariantsDifferOnPriorFailure ==
    (probe.fn = "variants" /\ probe.applied) =>
        /\ (PlainNonEmptyCall /\ probe.db.Built) => SameAdapterOperations
        /\ ~probe.db.Built =>
              /\ probe.flag.db.gets = 0 /\ probe.flag.db.sets = 0
              /\ probe.flag.store = store
        /\ probe.db.entryError # "nil" =>
              /\ probe.sentinel.db.gets = 0 /\ probe.sentinel.db.sets = 0
              /\ probe.sentinel.store = store
              /\ probe.sentinel.db.Dest = probe.db.Dest
              /\ probe.flag.db.sets = 0
              /\ probe.flag.db.gets = 1 <=>
                    (probe.db.Built /\ ~shouldSkipCache(cfg, probe.db)
                        /\ shouldCacheModel(cfg, probe.db))
              /\ probe.flag.db.HitFlag =>
                    probe.flag.db.Dest = Unmarshal(store[probe.flag.db.derived].value, probe.db.Dest)

\* A call carrying a prior failure on which the flag-based plugin read the adapter
\* and overwrote the destination with the cached rows, while the sentinel plugin
\* did nothing.
C40_Witness ==
    /\ probe.fn = "variants" /\ probe.applied
    /\ probe.db.entryError # "nil"
    /\ probe.flag.db.gets = 1 /\ probe.flag.db.HitFlag
    /\ probe.flag.db.Dest # probe.db.Dest
    /\ probe.sentinel.db.gets = 0
    /\ probe.sentinel.db.Dest = probe.db.Dest

====
